---- MODULE Spec2Model ----
(***************************************************************************)
(* Reveries: memory and cognition daemon.                                  *)
(*                                                                         *)
(* Spec      the daemon: consolidation passes (scheduled, requested over   *)
(*           IPC, final pass of sleep), conversation turns, the graph, the *)
(*           durable store and the shutdown paths.                         *)
(* SpecMono  the monologue manager and loop: cycles, pause / resume,       *)
(*           circuit-breaker interrupts, comfort resumes and triggers.     *)
(* SpecLife  the two shutdown paths (shutdown request, termination signal) *)
(*           with the passes in flight, under weak fairness.               *)
(* SpecFault scheduled passes whose persist may hit a failing store write. *)
(* SpecCycle the prompt of a monologue cycle and what the cycle calls.     *)
(* SpecBreaker the circuit breaker's evaluations and its event table.      *)
(* SpecIpc   one client connection: lines in data events, chat requests.   *)
(* SpecSelf  self-model merges of the manager and of consolidation.        *)
(* SpecDecay applyDecay while the clock moves and nodes are accessed.      *)
(* SpecGraph the memory graph under insert, merge, retrieval and decay.    *)
(* SpecSpread spreadActivation over drawn graphs, seeds and hop limits.    *)
(* SpecSleep sleep() while a monologue cycle is in progress.               *)
(* SpecErrors cycles and scheduled passes that throw, under weak fairness. *)
(* SpecNear  inserts of mutually distant episodes and findNearestNodes.     *)
(*                                                                         *)
(* Numbers of the program that are floats (salience, link strength,        *)
(* similarity, activation) are fixed-point integers in units of 1/Scale.   *)
(* Time is counted in days.                                                *)
(***************************************************************************)
EXTENDS Integers, Sequences, FiniteSets, TLC

\* ------------------------------------------------------------------ bounds
MaxRaw == 2            \* raw experiences ever encoded
MaxNodes == 2          \* episode nodes ever inserted
MaxPasses == 2         \* consolidation passes ever started
MaxTurns == 1          \* chat turns ever handled
MaxTicks == 1          \* clock advances
MaxPersistFailures == 1 \* store write failures injected
MaxCycles == 2         \* monologue cycles ever started
MaxChats == 2          \* chat requests seen by the monologue model
MaxComforts == 1       \* comfort timers ever armed
MaxThreads == 2        \* runLoop invocations the model has room for
ShortToken == 50       \* lengths of the tokens of the stream alphabet
LongToken == 120
SmallBudget == 100     \* the values of max_tokens_per_cycle
LargeBudget == 200
MaxEvals == 5          \* circuit-breaker evaluations
MaxDistressRun == 3    \* largest max_consecutive_distress configured
MaxRequests == 2       \* messages the client writes to the connection
MaxChunks == 1         \* chunks of one streamed reply
SmallMessage == 64     \* bytes of an ordinary line, newline included
BigTail == 20          \* bytes by which a long line exceeds the limit
ReadSize == 65536      \* most bytes one data event carries
MaxMerges == 3         \* self-model merges
MaxClockSteps == 2     \* clock moves and node accesses
MaxDecays == 2         \* applyDecay runs
MaxIds == 4            \* node identifiers the graph has room for
MaxGraphOps == 4       \* operations on the graph on its own
LowSalience == 50      \* saliences the language model gives an episode
MidSalience == 400
HighSalience == 900
WeakLink == 500        \* strengths of the links spreading is tried on
StrongLink == 800
NearCapLink == 950      \* a link strength within one boost of the cap

\* ------------------------------------------------------- program constants
Scale == 1000
MergeThreshold == 850            \* similarity > 0.85 merges
LinkStrengthInit == 500          \* thematic link strength 0.5
LinkBoost == 100                 \* merge strengthens links by 0.1
NearestForLinks == 3
HalfLifeDays == 30
MinimumSalience == 100
MinimumLinkStrength == 50
RetrieveLimit == 10
RetrieveMaxHops == 3
RetrieveDecayPerHop == 500
RetrieveThreshold == 10
EntryPoints == 5
SnapshotChars == 500
CbCheckInterval == 200
QuiescenceCheckInterval == 200
DistressThreshold == 600
DefaultMaxConsecutiveDistress == 3
MaxBufferSize == 1048576         \* 1024 * 1024 bytes
MonologueLimit == 5              \* the monologue's retrieve: limit
MonologueThreshold == 100        \* the monologue's retrieve: threshold 0.1

TickDays == HalfLifeDays         \* the clock advances one half-life at a time

\* ----------------------------------------------------------------- helpers
Max2(a, b) == IF a >= b THEN a ELSE b
Min2(a, b) == IF a <= b THEN a ELSE b

RECURSIVE Pow2(_)
Pow2(k) == IF k <= 0 THEN 1 ELSE 2 * Pow2(k - 1)

Range(s) == {s[i] : i \in 1..Len(s)}

\* the embedding service returns one of these vectors (both of magnitude 5,
\* so that cosines are exact: 1 between equal vectors, 4/5 otherwise)
Embeddings == {<<5, 0>>, <<4, 3>>}

dotProduct(a, b) == a[1] * b[1] + a[2] * b[2]

magnitude(v) ==
  LET s == v[1] * v[1] + v[2] * v[2]
  IN CHOOSE r \in 0..(s + 1) : r * r <= s /\ (r + 1) * (r + 1) > s

cosineSimilarity(a, b) ==
  LET magA == magnitude(a)
      magB == magnitude(b)
  IN IF magA = 0 \/ magB = 0 THEN 0
     ELSE (dotProduct(a, b) * Scale) \div (magA * magB)

\* ------------------------------------------------------------ memory graph
NodeIds == 1..MaxIds
NoDate == -1

EmptyGraph == [nodes |-> <<>>, links |-> [i \in NodeIds |-> <<>>]]

nodeCount(g) == Len(g.nodes)

RECURSIVE SumLens(_, _)
SumLens(f, S) ==
  IF S = {} THEN 0
  ELSE LET x == CHOOSE y \in S : TRUE IN Len(f[x]) + SumLens(f, S \ {x})

linkCount(g) == SumLens(g.links, NodeIds)

HasNode(g, id) == \E i \in 1..Len(g.nodes) : g.nodes[i].id = id

NodeIndex(g, id) == CHOOSE i \in 1..Len(g.nodes) : g.nodes[i].id = id

getNode(g, id) == g.nodes[NodeIndex(g, id)]

\* Map.set: an existing key keeps its position, a new key goes last
addNode(g, node) ==
  IF HasNode(g, node.id)
  THEN [g EXCEPT !.nodes[NodeIndex(g, node.id)] = node]
  ELSE [g EXCEPT !.nodes = Append(@, node)]

addLink(g, fromId, toId, strength, type) ==
  [g EXCEPT !.links[fromId] =
     Append(@, [targetId |-> toId, strength |-> strength, type |-> type])]

getLinks(g, id) == g.links[id]

\* stable sort of node indices by similarity to the query, descending
RECURSIVE InsertBySim(_, _, _)
InsertBySim(sorted, x, sim) ==
  IF sorted = <<>> THEN <<x>>
  ELSE IF sim[x] > sim[sorted[Len(sorted)]]
       THEN Append(InsertBySim(SubSeq(sorted, 1, Len(sorted) - 1), x, sim),
                   sorted[Len(sorted)])
       ELSE Append(sorted, x)

RECURSIVE SortBySim(_, _)
SortBySim(n, sim) ==
  IF n = 0 THEN <<>> ELSE InsertBySim(SortBySim(n - 1, sim), n, sim)

findNearestNodes(g, queryEmbedding, limit) ==
  LET sim == [i \in 1..Len(g.nodes) |->
                cosineSimilarity(queryEmbedding, g.nodes[i].embedding)]
      order == SortBySim(Len(g.nodes), sim)
      k == Min2(limit, Len(order))
  IN [j \in 1..k |-> g.nodes[order[j]]]

reinforceNode(g, id, now) ==
  IF ~HasNode(g, id) THEN g
  ELSE [g EXCEPT !.nodes[NodeIndex(g, id)] =
          [@ EXCEPT !.accessCount = @ + 1, !.lastAccessed = now]]

\* value * 0.5 ^ (days / halfLife), for days a multiple of the half-life
DecayMul(value, days) ==
  IF days >= 0 THEN value \div Pow2(days \div HalfLifeDays)
  ELSE value * Pow2((0 - days) \div HalfLifeDays)

applyDecay(g, now) ==
  LET decNode(n) ==
        [n EXCEPT !.salience =
           Max2(DecayMul(n.salience, now - n.lastAccessed), MinimumSalience)]
      nodes2 == [i \in 1..Len(g.nodes) |-> decNode(g.nodes[i])]
      decLinks(id) ==
        IF ~HasNode(g, id) THEN g.links[id]
        ELSE LET days == now - getNode(g, id).lastAccessed
             IN [j \in 1..Len(g.links[id]) |->
                   [g.links[id][j] EXCEPT !.strength =
                      Max2(DecayMul(@, days), MinimumLinkStrength)]]
  IN [nodes |-> nodes2, links |-> [id \in NodeIds |-> decLinks(id)]]

\* ------------------------------------------------- spreading activation
\* a Map<string, number> with its insertion order; energies in 1/EnergyScale
EnergyScale == Scale * Scale

EmptyMap == [keys |-> <<>>, val |-> [i \in NodeIds |-> 0]]

\* a map whose set overwrites instead of accumulating
MapAdd_set(m, k, v) ==
  [keys |-> IF k \in Range(m.keys) THEN m.keys ELSE Append(m.keys, k),
   val |-> [m.val EXCEPT ![k] = v]]

MapAdd(m, k, v) ==
  [keys |-> IF k \in Range(m.keys) THEN m.keys ELSE Append(m.keys, k),
   val |-> [m.val EXCEPT ![k] = @ + v]]

RECURSIVE PropagateLinks(_, _, _, _, _)
PropagateLinks(nf, links, j, energy, decayPerHop) ==
  IF j > Len(links) THEN nf
  ELSE PropagateLinks(
         MapAdd(nf, links[j].targetId,
                (((energy * links[j].strength) \div Scale) * decayPerHop)
                  \div Scale),
         links, j + 1, energy, decayPerHop)

RECURSIVE PropagateFrontier(_, _, _, _, _)
PropagateFrontier(nf, g, cf, i, decayPerHop) ==
  IF i > Len(cf.keys) THEN nf
  ELSE PropagateFrontier(
         PropagateLinks(nf, getLinks(g, cf.keys[i]), 1, cf.val[cf.keys[i]],
                        decayPerHop),
         g, cf, i + 1, decayPerHop)

RECURSIVE MergeFrontier(_, _, _)
MergeFrontier(act, nf, i) ==
  IF i > Len(nf.keys) THEN act
  ELSE MergeFrontier(MapAdd(act, nf.keys[i], nf.val[nf.keys[i]]), nf, i + 1)

RECURSIVE SpreadHops(_, _, _, _, _)
SpreadHops(g, act, cf, hops, decayPerHop) ==
  IF hops = 0 THEN act
  ELSE LET nf == PropagateFrontier(EmptyMap, g, cf, 1, decayPerHop)
       IN SpreadHops(g, MergeFrontier(act, nf, 1), nf, hops - 1, decayPerHop)

\* a spreading that stops after the first hop
spreadActivation_oneHop(g, seeds, maxHops, decayPerHop) ==
  SpreadHops(g, seeds, seeds, 1, decayPerHop)

spreadActivation(g, seeds, maxHops, decayPerHop) ==
  SpreadHops(g, seeds, seeds, maxHops, decayPerHop)

\* ---------------------------------------------------------------- retrieval
RECURSIVE SeedMap(_, _, _)
SeedMap(entry, q, i) ==
  IF i = 0 THEN EmptyMap
  ELSE LET m == SeedMap(entry, q, i - 1)
           n == entry[i]
       IN [keys |-> IF n.id \in Range(m.keys) THEN m.keys
                    ELSE Append(m.keys, n.id),
           val |-> [m.val EXCEPT
                      ![n.id] = cosineSimilarity(q, n.embedding) * n.salience]]

RECURSIVE ReinforceAll(_, _, _, _)
ReinforceAll(g, ids, i, now) ==
  IF i > Len(ids) THEN g
  ELSE ReinforceAll(reinforceNode(g, ids[i], now), ids, i + 1, now)

\* the ids retrieve returns, in order
RetrieveIds(g, q, limit, maxHops, decayPerHop, threshold) ==
  IF nodeCount(g) = 0 THEN <<>>
  ELSE
    LET entry == findNearestNodes(g, q, Min2(EntryPoints, nodeCount(g)))
        seeds == SeedMap(entry, q, Len(entry))
        act == spreadActivation(g, seeds, maxHops, decayPerHop)
        kept == SelectSeq(act.keys,
                  LAMBDA k : act.val[k] > (threshold * (EnergyScale \div Scale)))
        energy == [i \in 1..Len(kept) |-> act.val[kept[i]]]
        order == SortBySim(Len(kept), energy)
        n == Min2(limit, Len(order))
    IN [j \in 1..n |-> kept[order[j]]]

\* a retrieve that reinforces every node of the graph
retrieve_everyNode(g, q, limit, maxHops, decayPerHop, threshold, now) ==
  ReinforceAll(g, [i \in 1..Len(g.nodes) |-> g.nodes[i].id], 1, now)

\* the graph after retrieve (every returned node reinforced)
retrieve(g, q, limit, maxHops, decayPerHop, threshold, now) ==
  ReinforceAll(g, RetrieveIds(g, q, limit, maxHops, decayPerHop, threshold),
               1, now)

\* ------------------------------------------------------------ durable store
\* Date.toISOString / new Date(string), JSON.stringify / JSON.parse
toISOString(t) == <<"iso", t>>
parseDate(s) == s[2]
jsonStringify(v) == <<"json", v>>
jsonParse(s) == s[2]

EmptyDb == [episodes |-> <<>>, links |-> {}]

DbHasEpisode(db, id) == \E i \in 1..Len(db.episodes) : db.episodes[i].id = id

upsertEpisode(db, ep) ==
  IF DbHasEpisode(db, ep.id)
  THEN LET i == CHOOSE k \in 1..Len(db.episodes) : db.episodes[k].id = ep.id
       IN [db EXCEPT !.episodes[i] = [ep EXCEPT !.created = db.episodes[i].created]]
  ELSE [db EXCEPT !.episodes = Append(@, ep)]

deleteEpisodeLinks(db, fromId) ==
  [db EXCEPT !.links = {l \in @ : l.from_id # fromId}]

insertEpisodeLink(db, fromId, toId, strength, type) ==
  [db EXCEPT !.links = @ \cup {[from_id |-> fromId, to_id |-> toId,
                                strength |-> strength, type |-> type]}]

\* PRIMARY KEY (from_id, to_id) and the two foreign keys of episode_links
LinkConstraintFails(db, fromId, toId) ==
  \/ \E l \in db.links : l.from_id = fromId /\ l.to_id = toId
  \/ ~DbHasEpisode(db, fromId)
  \/ ~DbHasEpisode(db, toId)

\* SELECT ... FROM episode_links WHERE from_id = ?, in primary-key order
RECURSIVE LinkRowsInOrder(_)
LinkRowsInOrder(S) ==
  IF S = {} THEN <<>>
  ELSE LET l == CHOOSE x \in S : \A y \in S : x.to_id <= y.to_id
       IN <<l>> \o LinkRowsInOrder(S \ {l})

getEpisodeLinks(db, id) ==
  LET rows == LinkRowsInOrder({l \in db.links : l.from_id = id})
  IN [j \in 1..Len(rows) |->
        [targetId |-> rows[j].to_id, strength |-> rows[j].strength,
         type |-> rows[j].type]]

\* ---------------------------------------------------------------- hydrator
EpisodeOfNode(node) ==
  [id |-> node.id,
   created |-> toISOString(node.lastAccessed),
   lastAccessed |-> toISOString(node.lastAccessed),
   accessCount |-> node.accessCount,
   summary |-> node.summary,
   embedding |-> jsonStringify(node.embedding),
   salience |-> node.salience]

\* a hydrator that takes the access time from the created column
NodeOfEpisode_created(ep) ==
  [id |-> ep.id,
   embedding |-> jsonParse(ep.embedding),
   salience |-> ep.salience,
   created |-> NoDate,
   lastAccessed |-> parseDate(ep.created),
   accessCount |-> ep.accessCount,
   summary |-> ep.summary,
   patterns |-> FALSE]

NodeOfEpisode(ep) ==
  [id |-> ep.id,
   embedding |-> jsonParse(ep.embedding),
   salience |-> ep.salience,
   created |-> NoDate,
   lastAccessed |-> parseDate(ep.lastAccessed),
   accessCount |-> ep.accessCount,
   summary |-> ep.summary,
   patterns |-> FALSE]

RECURSIVE AddLinks(_, _, _, _)
AddLinks(g, fromId, links, j) ==
  IF j > Len(links) THEN g
  ELSE AddLinks(addLink(g, fromId, links[j].targetId, links[j].strength,
                        links[j].type),
                fromId, links, j + 1)

RECURSIVE HydrateFrom(_, _, _)
HydrateFrom(g, db, i) ==
  IF i > Len(db.episodes) THEN g
  ELSE LET ep == db.episodes[i]
       IN HydrateFrom(AddLinks(addNode(g, NodeOfEpisode(ep)), ep.id,
                               getEpisodeLinks(db, ep.id), 1),
                      db, i + 1)

hydrateGraph(db) == HydrateFrom(EmptyGraph, db, 1)

\* the statements persistGraph issues, in order
RECURSIVE LinkWrites(_, _, _)
LinkWrites(g, i, j) ==
  IF i > Len(g.nodes) THEN <<>>
  ELSE LET id == g.nodes[i].id
           ls == getLinks(g, id)
       IN IF j = 0
          THEN <<[op |-> "deleteLinks", id |-> id]>> \o LinkWrites(g, i, 1)
          ELSE IF j > Len(ls) THEN LinkWrites(g, i + 1, 0)
          ELSE <<[op |-> "insertLink", id |-> id, link |-> ls[j]]>>
               \o LinkWrites(g, i, j + 1)

PersistWrites(g) ==
  [i \in 1..Len(g.nodes) |->
     [op |-> "upsert", ep |-> EpisodeOfNode(g.nodes[i])]]
  \o LinkWrites(g, 1, 0)

WriteFails(db, w) ==
  w.op = "insertLink" /\ LinkConstraintFails(db, w.id, w.link.targetId)

ApplyWrite(db, w) ==
  CASE w.op = "upsert" -> upsertEpisode(db, w.ep)
    [] w.op = "deleteLinks" -> deleteEpisodeLinks(db, w.id)
    [] w.op = "insertLink" ->
         insertEpisodeLink(db, w.id, w.link.targetId, w.link.strength,
                           w.link.type)

\* the store after persistGraph, when the write number failAt raises an
\* error (0: no injected error); every statement commits on its own
RECURSIVE RunWrites(_, _, _, _)
RunWrites(db, ws, k, failAt) ==
  IF k > Len(ws) THEN [db |-> db, ok |-> TRUE]
  ELSE IF k = failAt \/ WriteFails(db, ws[k]) THEN [db |-> db, ok |-> FALSE]
  ELSE RunWrites(ApplyWrite(db, ws[k]), ws, k + 1, failAt)

persistGraph(g, db, failAt) == RunWrites(db, PersistWrites(g), 1, failAt)

\* ------------------------------------------------------------- self-model
BlankSelfModel ==
  [userId |-> "", currentFocus |-> "", values |-> <<>>, tendencies |-> <<>>]

\* a consolidation that applies the updates to a blank model instead of the
\* reloaded one
ApplySelfModelUpdates_blank(stored, upd) ==
  [BlankSelfModel EXCEPT
     !.currentFocus = upd.currentFocus,
     !.tendencies = IF upd.newTendency # "" THEN <<upd.newTendency>> ELSE <<>>,
     !.values = IF upd.newValue # "" THEN <<upd.newValue>> ELSE <<>>]

\* consolidate, step 5: reload from the store, apply the updates, save
ApplySelfModelUpdates(stored, upd) ==
  LET freshModel == stored
      m1 == IF upd.currentFocus # ""
            THEN [freshModel EXCEPT !.currentFocus = upd.currentFocus]
            ELSE freshModel
      m2 == IF upd.newTendency # "" /\ upd.newTendency \notin Range(m1.tendencies)
            THEN [m1 EXCEPT !.tendencies = Append(@, upd.newTendency)]
            ELSE m1
      m3 == IF upd.newValue # "" /\ upd.newValue \notin Range(m2.values)
            THEN [m2 EXCEPT !.values = Append(@, upd.newValue)]
            ELSE m2
  IN m3

\* the partner-name write of the conversation path: read the stored
\* self-model, set the name, save
setUserName(stored, name) == [stored EXCEPT !.userId = name]

\* --------------------------------------------------- consolidation engine
NoUpdates == [currentFocus |-> "", newTendency |-> "", newValue |-> ""]

SelfModelUpdates ==
  {NoUpdates,
   [currentFocus |-> "f1", newTendency |-> "t1", newValue |-> "v1"]}

\* the salience the model gives its first, second, ... candidate
CandidateSalience(j) == IF j = 1 THEN 900 ELSE 300

\* what the wired consolidateFn returns when the model call fails
EmptyResult == [episodes |-> <<>>, updates |-> NoUpdates]

\* a step 3 that drops the candidate
MergeOrInsert_drop(g, ep, embedding, now) == g

\* consolidate, step 3, for one candidate whose summary embedded to `embedding`
MergeOrInsert(g, ep, embedding, now) ==
  LET nearest == IF nodeCount(g) > 0 THEN findNearestNodes(g, embedding, 1)
                 ELSE <<>>
      merges == /\ Len(nearest) > 0
                /\ cosineSimilarity(embedding, nearest[1].embedding) > MergeThreshold
  IN IF merges
     THEN LET existing == nearest[1]
              i == NodeIndex(g, existing.id)
              g1 == [g EXCEPT !.nodes[i] =
                       [@ EXCEPT !.summary = @ \o ep.summary,
                                 !.salience = Min2(Scale, Max2(@, ep.salience))]]
              g2 == reinforceNode(g1, existing.id, now)
          IN [g2 EXCEPT !.links[existing.id] =
                [j \in 1..Len(@) |->
                   [@[j] EXCEPT !.strength = Min2(Scale, @ + LinkBoost)]]]
     ELSE LET id == nodeCount(g) + 1
              g1 == addNode(g, [id |-> id, embedding |-> embedding,
                                salience |-> ep.salience, created |-> now,
                                lastAccessed |-> now, accessCount |-> 0,
                                summary |-> ep.summary, patterns |-> TRUE])
              near == IF nodeCount(g1) > 1
                      THEN findNearestNodes(g1, embedding, NearestForLinks)
                      ELSE <<>>
              others == SelectSeq(near, LAMBDA n : n.id # id)
          IN AddLinks(g1, id,
                      [j \in 1..Len(others) |->
                         [targetId |-> others[j].id,
                          strength |-> LinkStrengthInit, type |-> "thematic"]],
                      1)

\* a step 6 that flags every row of the table
MarkProcessed_all(rp, raw) == [i \in 1..Len(rp) |-> TRUE]

\* consolidate, step 6
MarkProcessed(rp, raw) == [i \in 1..Len(rp) |-> rp[i] \/ i \in raw]

\* a pass that returns without decay and checkpoint
DecayAndPersist_skip(g, dbv, now, failAt) ==
  [graph |-> g, db |-> dbv, ok |-> TRUE, log |-> <<>>]

\* consolidate, steps 7 and 8
DecayAndPersist(g, dbv, now, failAt) ==
  LET g2 == applyDecay(g, now)
      pr == persistGraph(g2, dbv, failAt)
  IN [graph |-> g2, db |-> pr.db, ok |-> pr.ok, log |-> <<"decay", "persist">>]

\* consolidate, steps 5 to 8, run without suspension after the last episode
ConsolidateTail(g, dbv, stored, rp, rec, now, failAt) ==
  LET dp == DecayAndPersist(g, dbv, now, failAt)
  IN [graph |-> dp.graph, db |-> dp.db, ok |-> dp.ok,
      storeSelf |-> ApplySelfModelUpdates(stored, rec.updates),
      rawProcessed |-> MarkProcessed(rp, rec.raw),
      log |-> <<"selfModel", "mark">> \o dp.log]

\* ================================================================ the daemon
VARIABLES
  now,             \* wall clock, in days
  ticks,           \* clock advances so far
  rawProcessed,    \* raw_experiences: the processed flag of every row, by id
  graph,           \* the in-memory MemoryGraph
  db,              \* episodes and episode_links tables
  storeSelf,       \* the self_model row
  memSelf,         \* the SelfModel object shared by handler and manager
  pass,            \* the consolidate() invocations, by caller
  passesStarted,
  conv,            \* the handleMessage invocation
  turns,
  life,            \* server, timer, monologue and the shutdown paths
  faultsLeft,      \* store write failures still to be injected
  applied          \* history: the self-model writes made so far

daemonVars == <<now, ticks, rawProcessed, graph, db, storeSelf, memSelf, pass,
                passesStarted, conv, turns, life, faultsLeft, applied>>

VARIABLES
  mgr,               \* MonologueManager: running, _state, breaker buffer
  loop,              \* MonologueLoop: _isPaused, _isRunning, buffer
  threads,           \* the runLoop invocations and their position
  srv,               \* DaemonServer: conversation pause flag and timer
  maxTokensPerCycle,
  counts,            \* cycles, chats and comfort timers so far
  pausedCycle        \* history: pause was called during the cycle in progress

monoVars == <<mgr, loop, threads, srv, maxTokensPerCycle, counts, pausedCycle>>

VARIABLES
  cyc,               \* generateMonologue: what a cycle reads and calls
  cb,                \* CircuitBreaker: counter, event table, evaluations
  ipc,               \* DaemonServer: one connection and its chat requests
  sm,                \* SelfModelManager: cached and stored self-model
  dk,                \* applyDecay on its own: graph, clock, last run
  mg,                \* the memory graph on its own and its latest operation
  sa,                \* spreadActivation on its own: graph, seeds, results
  sl                 \* sleep() next to the monologue: store, encodings

extVars == <<cyc, cb, ipc, sm, dk, mg, sa, sl>>

PassIds == {"scheduled", "ipc", "final"}
MaxEpisodes == 2
Names == {"", "Sarah"}

IdlePass ==
  [pc |-> "idle", raw |-> {}, lenAtLoad |-> 0, episodes |-> <<>>,
   updates |-> NoUpdates, idx |-> 0, llmFailed |-> FALSE,
   nameDuring |-> FALSE, log |-> <<>>, outcome |-> "none"]

SleepSequence ==
  <<"stopTimer", "stopMonologue", "finalConsolidation", "persist", "close",
    "exit">>

DaemonInit ==
  /\ now = 0
  /\ ticks = 0
  /\ rawProcessed = <<>>
  /\ graph = EmptyGraph
  /\ db = EmptyDb
  /\ storeSelf = BlankSelfModel
  /\ memSelf = BlankSelfModel
  /\ pass = [p \in PassIds |-> IdlePass]
  /\ passesStarted = 0
  /\ conv = [pc |-> "idle"]
  /\ turns = 0
  /\ life = [serverUp |-> TRUE, timer |-> TRUE, monoRunning |-> TRUE,
             sigPc |-> "idle", ipcPc |-> "idle", exited |-> FALSE,
             log |-> <<>>]
  /\ applied = [name |-> "", focus |-> "", values |-> {}, tendencies |-> {}]

\* the write number at which a persist may be made to fail (0: it does not)
FailPoints(g) ==
  IF faultsLeft > 0 THEN 0..Len(PersistWrites(g)) ELSE {0}

\* DaemonLifecycle.sleep after the final pass: persist, close, exit
SleepTail(g, dbv, failAt) ==
  LET pr == persistGraph(g, dbv, failAt)
  IN [db |-> pr.db,
      log |-> IF pr.ok THEN <<"persist", "close", "exit">> ELSE <<"exit">>]

AppliedAfter(upd) ==
  [applied EXCEPT
     !.focus = IF upd.currentFocus # "" THEN upd.currentFocus ELSE @,
     !.values = IF upd.newValue # "" THEN @ \cup {upd.newValue} ELSE @,
     !.tendencies = IF upd.newTendency # "" THEN @ \cup {upd.newTendency} ELSE @]

\* a pass some of whose episodes are in the graph and some are not yet
HalfMutated ==
  \E p \in PassIds : pass[p].pc = "embed" /\ pass[p].idx > 1

\* consolidate() of caller p returns or throws; for the final pass the
\* rest of sleep() runs in the same turn of the event loop
CompletePass(p, rec, g2, db2, ok, f1, f2, lifeBase) ==
  /\ pass' = [pass EXCEPT ![p] =
                [rec EXCEPT !.pc = "idle", !.episodes = <<>>, !.idx = 0,
                            !.outcome = IF ok THEN "ok" ELSE "error"]]
  /\ graph' = g2
  /\ IF p = "final"
     THEN LET st == SleepTail(g2, db2, f2)
          IN /\ db' = st.db
             /\ life' = [lifeBase EXCEPT !.log = @ \o st.log,
                                         !.exited = TRUE, !.sigPc = "done"]
             /\ faultsLeft' = faultsLeft - (IF f1 > 0 THEN 1 ELSE 0)
                                         - (IF f2 > 0 THEN 1 ELSE 0)
     ELSE /\ db' = db2
          /\ f2 = 0
          /\ life' = lifeBase
          /\ faultsLeft' = faultsLeft - (IF f1 > 0 THEN 1 ELSE 0)

Unprocessed == {i \in 1..Len(rawProcessed) : ~rawProcessed[i]}

\* consolidate() up to its first suspension
BeginPass(p, f1, f2, lifeBase) ==
  LET rec == [IdlePass EXCEPT !.raw = Unprocessed,
                              !.lenAtLoad = Len(rawProcessed)]
  IN IF rec.raw = {}
     THEN LET dp == DecayAndPersist(graph, db, now, f1)
          IN /\ CompletePass(p, [rec EXCEPT !.log = <<"load">> \o dp.log],
                             dp.graph, dp.db, dp.ok, f1, f2, lifeBase)
             /\ UNCHANGED <<rawProcessed, storeSelf, applied>>
     ELSE /\ pass' = [pass EXCEPT ![p] =
                        [rec EXCEPT !.pc = "llm", !.log = <<"load", "llm">>]]
          /\ f1 = 0 /\ f2 = 0
          /\ life' = lifeBase
          /\ UNCHANGED <<graph, db, faultsLeft, rawProcessed, storeSelf,
                         applied>>

\* the consolidation timer fires, or a consolidate request arrives
StartPass(p) ==
  /\ UNCHANGED <<monoVars, extVars>>
  /\ p \in {"scheduled", "ipc"}
  /\ ~life.exited
  /\ pass[p].pc = "idle"
  /\ passesStarted < MaxPasses
  /\ p = "scheduled" => life.timer
  /\ p = "ipc" => life.serverUp
  /\ passesStarted' = passesStarted + 1
  /\ \E f1 \in FailPoints(applyDecay(graph, now)) :
       BeginPass(p, f1, 0, life)
  /\ UNCHANGED <<now, ticks, memSelf, conv, turns>>

\* steps 5 to 8 of the pass of caller p, from graph g
RunTail(p, rec, g, f1, f2) ==
  LET t == ConsolidateTail(g, db, storeSelf, rawProcessed, rec, now, f1)
  IN /\ CompletePass(p, [rec EXCEPT !.log = @ \o t.log], t.graph, t.db, t.ok,
                     f1, f2, life)
     /\ storeSelf' = t.storeSelf
     /\ rawProcessed' = t.rawProcessed
     /\ applied' = AppliedAfter(rec.updates)

PendingEpisodes ==
  LET left(p) == IF pass[p].pc = "embed"
                 THEN Len(pass[p].episodes) - pass[p].idx + 1 ELSE 0
  IN left("scheduled") + left("ipc") + left("final")

FailPointsAfter(g, f1) ==
  IF f1 > 0 /\ faultsLeft <= 1 THEN {0} ELSE FailPoints(g)

\* consolidateFn resolves: the model's reply, or the empty result the
\* wiring substitutes when the call or the parse fails
LlmReturn(p) ==
  /\ UNCHANGED <<monoVars, extVars>>
  /\ ~life.exited
  /\ pass[p].pc = "llm"
  /\ \E failed \in BOOLEAN, n \in 0..MaxEpisodes, upd \in SelfModelUpdates :
       LET result ==
             IF failed THEN EmptyResult
             ELSE [episodes |-> [j \in 1..n |->
                                   [summary |-> <<j>>,
                                    salience |-> CandidateSalience(j)]],
                   updates |-> upd]
           rec == [pass[p] EXCEPT !.episodes = result.episodes,
                                  !.updates = result.updates,
                                  !.llmFailed = failed]
       IN /\ failed => (n = 0 /\ upd = NoUpdates)
          /\ nodeCount(graph) + PendingEpisodes + n <= MaxNodes
          /\ IF result.episodes = <<>>
             THEN \E f1 \in FailPoints(applyDecay(graph, now)) :
                  \E f2 \in (IF p = "final"
                             THEN FailPointsAfter(applyDecay(graph, now), f1)
                             ELSE {0}) :
                    RunTail(p, rec, graph, f1, f2)
             ELSE /\ pass' = [pass EXCEPT ![p] =
                                [rec EXCEPT !.pc = "embed", !.idx = 1]]
                  /\ UNCHANGED <<graph, db, life, faultsLeft, storeSelf,
                                 rawProcessed, applied>>
  /\ UNCHANGED <<now, ticks, memSelf, passesStarted, conv, turns>>

\* embedFn resolves for the candidate at idx: merge or insert it, and after
\* the last candidate run steps 5 to 8
EmbedReturn(p) ==
  /\ UNCHANGED <<monoVars, extVars>>
  /\ ~life.exited
  /\ pass[p].pc = "embed"
  /\ \E e \in Embeddings :
       LET rec == pass[p]
           g1 == MergeOrInsert(graph, rec.episodes[rec.idx], e, now)
       IN IF rec.idx < Len(rec.episodes)
          THEN /\ pass' = [pass EXCEPT ![p].idx = @ + 1]
               /\ graph' = g1
               /\ UNCHANGED <<db, life, faultsLeft, storeSelf,
                              rawProcessed, applied>>
          ELSE \E f1 \in FailPoints(applyDecay(g1, now)) :
               \E f2 \in (IF p = "final"
                          THEN FailPointsAfter(applyDecay(g1, now), f1)
                          ELSE {0}) :
                 RunTail(p, rec, g1, f1, f2)
  /\ UNCHANGED <<now, ticks, memSelf, passesStarted, conv, turns>>

\* embedFn rejects: consolidate() throws out of the episode loop
EmbedFails(p) ==
  /\ UNCHANGED <<monoVars, extVars>>
  /\ ~life.exited
  /\ pass[p].pc = "embed"
  /\ \E f2 \in (IF p = "final" THEN FailPoints(graph) ELSE {0}) :
       CompletePass(p, [pass[p] EXCEPT !.log = @ \o <<"error">>], graph, db,
                    FALSE, 0, f2, life)
  /\ UNCHANGED <<now, ticks, memSelf, passesStarted, conv, turns, storeSelf,
                 rawProcessed, applied>>

\* ------------------------------------------------------ conversation turn
\* handleMessage up to its first suspension: session, name detection
ChatStart(name) ==
  /\ UNCHANGED <<monoVars, extVars>>
  /\ ~life.exited
  /\ life.serverUp
  /\ conv.pc = "idle"
  /\ turns < MaxTurns
  /\ turns' = turns + 1
  /\ IF memSelf.userId = "" /\ name # ""
     THEN /\ storeSelf' = setUserName(storeSelf, name)
          /\ memSelf' = [memSelf EXCEPT !.userId = name]
          /\ applied' = [applied EXCEPT !.name = name]
          /\ pass' = [p \in PassIds |->
                        IF pass[p].pc # "idle"
                        THEN [pass[p] EXCEPT !.nameDuring = TRUE]
                        ELSE pass[p]]
     ELSE UNCHANGED <<storeSelf, memSelf, applied, pass>>
  /\ conv' = [conv EXCEPT
                !.pc = IF nodeCount(graph) > 0 THEN "embedding" ELSE "streaming"]
  /\ UNCHANGED <<now, ticks, rawProcessed, graph, db, passesStarted, life,
                 faultsLeft>>

\* the query embedding arrives and retrieve runs on the graph as it is now
ChatRetrieve(q) ==
  /\ UNCHANGED <<monoVars, extVars>>
  /\ ~life.exited
  /\ conv.pc = "embedding"
  /\ graph' = retrieve(graph, q, RetrieveLimit, RetrieveMaxHops,
                       RetrieveDecayPerHop, RetrieveThreshold, now)
  /\ conv' = [conv EXCEPT !.pc = "streaming"]
  /\ UNCHANGED <<now, ticks, rawProcessed, db, storeSelf, memSelf, pass,
                 passesStarted, turns, life, faultsLeft, applied>>

\* the query embedding fails: the turn goes on without memories
ChatRetrieveFails ==
  /\ UNCHANGED <<monoVars, extVars>>
  /\ ~life.exited
  /\ conv.pc = "embedding"
  /\ conv' = [conv EXCEPT !.pc = "streaming"]
  /\ UNCHANGED <<now, ticks, rawProcessed, graph, db, storeSelf, memSelf, pass,
                 passesStarted, turns, life, faultsLeft, applied>>

\* the reply stream ends: history is pushed and the exchange is handed to
\* encodeExperience (ok), or the stream throws and the turn ends
ChatStreamEnds(ok) ==
  /\ UNCHANGED <<monoVars, extVars>>
  /\ ~life.exited
  /\ conv.pc = "streaming"
  /\ conv' = [conv EXCEPT !.pc = IF ok THEN "encoding" ELSE "idle"]
  /\ UNCHANGED <<now, ticks, rawProcessed, graph, db, storeSelf, memSelf, pass,
                 passesStarted, turns, life, faultsLeft, applied>>

\* encodeExperience: the embedding arrives and the raw row is inserted
\* (ok), or the embedding fails and the error is logged
ChatEncoded(ok) ==
  /\ UNCHANGED <<monoVars, extVars>>
  /\ ~life.exited
  /\ conv.pc = "encoding"
  /\ ok => Len(rawProcessed) < MaxRaw
  /\ rawProcessed' = IF ok THEN Append(rawProcessed, FALSE) ELSE rawProcessed
  /\ conv' = [conv EXCEPT !.pc = "idle"]
  /\ UNCHANGED <<now, ticks, graph, db, storeSelf, memSelf, pass,
                 passesStarted, turns, life, faultsLeft, applied>>

\* a monologue cycle completed and its buffer is encoded
EncodeMonologue ==
  /\ UNCHANGED <<monoVars, extVars>>
  /\ ~life.exited
  /\ life.monoRunning
  /\ Len(rawProcessed) < MaxRaw
  /\ rawProcessed' = Append(rawProcessed, FALSE)
  /\ UNCHANGED <<now, ticks, graph, db, storeSelf, memSelf, pass,
                 passesStarted, conv, turns, life, faultsLeft, applied>>

Tick ==
  /\ UNCHANGED <<monoVars, extVars>>
  /\ ~life.exited
  /\ ticks < MaxTicks
  /\ ticks' = ticks + 1
  /\ now' = now + TickDays
  /\ UNCHANGED <<rawProcessed, graph, db, storeSelf, memSelf, pass,
                 passesStarted, conv, turns, life, faultsLeft, applied>>

\* ---------------------------------------------------------------- shutdown
\* DaemonServer.handleShutdown: answer ok and defer the stop
HandleShutdown ==
  /\ UNCHANGED <<monoVars, extVars>>
  /\ ~life.exited
  /\ life.serverUp
  /\ life.ipcPc = "idle"
  /\ life' = [life EXCEPT !.ipcPc = "deferred"]
  /\ UNCHANGED <<now, ticks, rawProcessed, graph, db, storeSelf, memSelf, pass,
                 passesStarted, conv, turns, faultsLeft, applied>>

\* the deferred callback: stop the monologue, stop the server
ShutdownDeferred ==
  /\ UNCHANGED <<monoVars, extVars>>
  /\ ~life.exited
  /\ life.ipcPc = "deferred"
  /\ life' = [life EXCEPT !.ipcPc = "done", !.monoRunning = FALSE,
                          !.serverUp = FALSE,
                          !.log = @ \o <<"stopMonologue">>]
  /\ UNCHANGED <<now, ticks, rawProcessed, graph, db, storeSelf, memSelf, pass,
                 passesStarted, conv, turns, faultsLeft, applied>>

\* SIGTERM or SIGINT: shutdown() calls server.stop()
Signal ==
  /\ UNCHANGED <<monoVars, extVars>>
  /\ ~life.exited
  /\ life.sigPc = "idle"
  /\ life' = [life EXCEPT !.sigPc = "stopping", !.serverUp = FALSE]
  /\ UNCHANGED <<now, ticks, rawProcessed, graph, db, storeSelf, memSelf, pass,
                 passesStarted, conv, turns, faultsLeft, applied>>

\* the server has closed: DaemonLifecycle.sleep runs up to the first
\* suspension of the final pass (or to the exit when that pass has no input)
Sleep ==
  /\ UNCHANGED <<monoVars, extVars>>
  /\ ~life.exited
  /\ life.sigPc = "stopping"
  /\ \E f1 \in FailPoints(applyDecay(graph, now)) :
     \E f2 \in FailPointsAfter(applyDecay(graph, now), f1) :
       BeginPass("final", f1, f2,
                 [life EXCEPT !.sigPc = "sleeping", !.timer = FALSE,
                              !.monoRunning = FALSE,
                              !.log = @ \o <<"stopTimer", "stopMonologue",
                                             "finalConsolidation">>])
  /\ UNCHANGED <<now, ticks, memSelf, passesStarted, conv, turns>>

\* ============================================================ the monologue
ThreadIds == 1..MaxThreads

NoThread == [pc |-> "none", charCount |-> 0, overBudget |-> FALSE]

\* the sizes of the tokens the model streams, and whether a token ends a
\* sentence (the buffer then ends in [.!?] and optional blanks, or in a
\* blank line)
TokenLens == {ShortToken, LongToken}

Budgets == {SmallBudget, LargeBudget}

Verdicts == {"continue", "interrupt", "interrupt_and_comfort"}

MonoInit(b) ==
  /\ mgr = [running |-> FALSE, started |-> FALSE, stopped |-> FALSE,
            state |-> "active", cbLen |-> 0, lastCbCheck |-> 0,
            comfortTimers |-> 0]
  /\ loop = [isPaused |-> FALSE, isRunning |-> FALSE, bufLen |-> 0,
             lastQuiescenceCheck |-> 0, pendingContext |-> FALSE]
  /\ threads = [t \in ThreadIds |-> NoThread]
  /\ srv = [monologuePausedForConversation |-> FALSE,
            conversationTimer |-> FALSE]
  /\ maxTokensPerCycle = b
  /\ counts = [cycles |-> 0, chats |-> 0, comforts |-> 0]
  /\ pausedCycle = FALSE

\* the monologue state an operation works on
Mono ==
  [mgr |-> mgr, loop |-> loop, threads |-> threads, counts |-> counts,
   pausedCycle |-> pausedCycle]

Commit(m) ==
  /\ m.counts.cycles <= MaxCycles
  /\ mgr' = m.mgr
  /\ loop' = m.loop
  /\ threads' = m.threads
  /\ counts' = m.counts
  /\ pausedCycle' = m.pausedCycle

\* runLoop from the reset of the breaker buffer to the first suspension of
\* runOneCycle
startCycle(m, t) ==
  [m EXCEPT !.mgr.state = "active", !.mgr.cbLen = 0, !.mgr.lastCbCheck = 0,
            !.loop.pendingContext = FALSE,
            !.loop.isRunning = TRUE, !.loop.isPaused = FALSE,
            !.loop.bufLen = 0, !.loop.lastQuiescenceCheck = 0,
            !.threads[t] = [pc |-> "cycle", charCount |-> 0,
                            overBudget |-> FALSE],
            !.counts.cycles = @ + 1]

\* the head of the while loop of runLoop
runLoopTop(m, t) ==
  IF ~m.mgr.running THEN [m EXCEPT !.threads[t].pc = "done"]
  ELSE IF m.mgr.state = "paused" THEN [m EXCEPT !.threads[t].pc = "pausedPoll"]
  ELSE startCycle(m, t)

\* a runLoop without its catch: a network error ends the loop
endCycle_rethrow(m, t, how) ==
  [m EXCEPT !.loop.isRunning = FALSE, !.pausedCycle = FALSE,
            !.threads[t] = [NoThread EXCEPT
                              !.pc = IF how = "network" THEN "done"
                                     ELSE IF m.mgr.running THEN "waitTrigger"
                                     ELSE "done"]]

\* the finally block of runOneCycle and runLoop after the await:
\* how is "network" (a network error was thrown) or "done"
endCycle(m, t, how) ==
  LET m1 == [m EXCEPT !.loop.isRunning = FALSE, !.pausedCycle = FALSE,
                      !.threads[t] = NoThread]
  IN IF how = "network" THEN [m1 EXCEPT !.threads[t].pc = "netSleep"]
     ELSE [m1 EXCEPT !.mgr.state = "quiescent",
                     !.threads[t].pc = IF m1.mgr.running THEN "waitTrigger"
                                       ELSE "done"]

\* a conversation or association trigger is emitted: every runLoop blocked
\* in waitForTrigger goes on
RECURSIVE WakeFrom(_, _)
WakeFrom(m, t) ==
  IF t > MaxThreads THEN m
  ELSE WakeFrom(IF m.threads[t].pc = "waitTrigger" THEN runLoopTop(m, t) ELSE m,
                t + 1)

wakeWaiters(m) == WakeFrom(m, 1)

\* evaluateCircuitBreaker for a token of length len; verdict is what the
\* breaker returns when it is consulted
evaluateCircuitBreaker(m, len, verdict) ==
  LET currentLen == m.mgr.cbLen + len
      m1 == [m EXCEPT !.mgr.cbLen = currentLen]
  IN IF currentLen - m.mgr.lastCbCheck < CbCheckInterval THEN m1
     ELSE LET m2 == [m1 EXCEPT !.mgr.lastCbCheck = currentLen]
          IN IF verdict = "continue" THEN m2
             ELSE LET m3 == [m2 EXCEPT !.loop.isPaused = TRUE,
                                       !.mgr.state = "paused"]
                  IN IF verdict = "interrupt_and_comfort"
                     THEN [m3 EXCEPT !.mgr.comfortTimers = @ + 1,
                                     !.counts.comforts = @ + 1]
                     ELSE m3

CbConsulted(m, len) == m.mgr.cbLen + len - m.mgr.lastCbCheck >= CbCheckInterval

\* the body of the for-await loop of runOneCycle for one token
cycleToken(m, t, len, boundary, verdict, quiet) ==
  IF m.loop.isPaused THEN endCycle(m, t, "done")
  ELSE
    LET charCount == m.threads[t].charCount + len
        m1 == [m EXCEPT !.loop.bufLen = @ + len,
                        !.threads[t].charCount = charCount]
        m2 == evaluateCircuitBreaker(m1, len, verdict)
        overBudget == m.threads[t].overBudget \/ charCount >= maxTokensPerCycle
        m3 == [m2 EXCEPT !.threads[t].overBudget = overBudget]
    IN IF m2.loop.isPaused THEN endCycle(m2, t, "done")
       ELSE IF overBudget /\ (boundary \/ 2 * charCount >= 3 * maxTokensPerCycle)
       THEN endCycle(m3, t, "done")
       ELSE IF charCount - m3.loop.lastQuiescenceCheck >= QuiescenceCheckInterval
       THEN LET m4 == [m3 EXCEPT !.loop.lastQuiescenceCheck = charCount]
            IN IF quiet THEN endCycle([m4 EXCEPT !.mgr.state = "quiescent"],
                                      t, "done")
               ELSE m4
       ELSE m3

\* main() starts the monologue once, after the server
StartAllowed_again == ~mgr.stopped

StartAllowed == ~mgr.started

\* MonologueManager.start
Start ==
  /\ StartAllowed
  /\ \E t \in ThreadIds :
       /\ threads[t].pc = "none"
       /\ \A u \in ThreadIds : u < t => threads[u].pc # "none"
       /\ Commit(runLoopTop([Mono EXCEPT !.mgr.running = TRUE,
                                         !.mgr.started = TRUE], t))
  /\ UNCHANGED <<srv, maxTokensPerCycle, daemonVars, extVars>>

\* the stream of the cycle of runLoop t yields a token
Token(t) ==
  /\ threads[t].pc = "cycle"
  /\ \E len \in TokenLens, boundary \in BOOLEAN, verdict \in Verdicts,
        quiet \in BOOLEAN :
       /\ loop.isPaused => (len = ShortToken /\ ~boundary)
       /\ (loop.isPaused \/ ~CbConsulted(Mono, len)) => verdict = "continue"
       /\ verdict = "interrupt_and_comfort" => counts.comforts < MaxComforts
       /\ ( \/ loop.isPaused
            \/ threads[t].charCount + len - loop.lastQuiescenceCheck
                 < QuiescenceCheckInterval ) => ~quiet
       /\ Commit(cycleToken(Mono, t, len, boundary, verdict, quiet))
  /\ UNCHANGED <<srv, maxTokensPerCycle, daemonVars, extVars>>

\* the stream ends, or throws an error that is no network error
StreamEnds(t) ==
  /\ threads[t].pc = "cycle"
  /\ Commit(endCycle(Mono, t, "done"))
  /\ UNCHANGED <<srv, maxTokensPerCycle, daemonVars, extVars>>

\* the stream throws a network error
NetworkError(t) ==
  /\ threads[t].pc = "cycle"
  /\ Commit(endCycle(Mono, t, "network"))
  /\ UNCHANGED <<srv, maxTokensPerCycle, daemonVars, extVars>>

\* the 30 s sleep after a network error is over
NetSleepDone(t) ==
  /\ threads[t].pc = "netSleep"
  /\ Commit(runLoopTop(Mono, t))
  /\ UNCHANGED <<srv, maxTokensPerCycle, daemonVars, extVars>>

\* the 100 ms poll of a paused runLoop sees that it may go on
PollPaused(t) ==
  /\ threads[t].pc = "pausedPoll"
  /\ mgr.state # "paused" \/ ~mgr.running
  /\ Commit(IF ~mgr.running THEN [Mono EXCEPT !.threads[t].pc = "done"]
            ELSE startCycle(Mono, t))
  /\ UNCHANGED <<srv, maxTokensPerCycle, daemonVars, extVars>>

\* the idle timer of waitForTrigger fires
IdleTimerFires(t) ==
  /\ threads[t].pc = "waitTrigger"
  /\ Commit(runLoopTop(Mono, t))
  /\ UNCHANGED <<srv, maxTokensPerCycle, daemonVars, extVars>>

\* handleChat up to the call of the conversation handler
HandleChat ==
  /\ ~mgr.stopped
  /\ counts.chats < MaxChats
  /\ LET m == [Mono EXCEPT !.counts.chats = @ + 1]
     IN IF ~srv.monologuePausedForConversation
        THEN Commit([m EXCEPT !.mgr.state = "paused",
                              !.loop.isPaused = TRUE,
                              !.pausedCycle =
                                 \E t \in ThreadIds : threads[t].pc = "cycle"])
        ELSE Commit(m)
  /\ srv' = [monologuePausedForConversation |-> TRUE,
             conversationTimer |-> TRUE]
  /\ UNCHANGED <<maxTokensPerCycle, daemonVars, extVars>>

\* MonologueManager.resumeAfterConversation
resumeAfterConversation(m) ==
  wakeWaiters([m EXCEPT !.mgr.state = "active", !.loop.isPaused = FALSE])

\* the conversation timer fires 30 s after the last chat message
ConversationTimerFires ==
  /\ srv.conversationTimer
  /\ Commit(IF srv.monologuePausedForConversation
            THEN resumeAfterConversation(Mono) ELSE Mono)
  /\ srv' = [monologuePausedForConversation |-> FALSE,
             conversationTimer |-> FALSE]
  /\ UNCHANGED <<maxTokensPerCycle, daemonVars, extVars>>

\* the comfort timer armed by the circuit breaker fires after 1 s
ComfortTimerFires ==
  /\ mgr.comfortTimers > 0
  /\ Commit(wakeWaiters([Mono EXCEPT !.mgr.comfortTimers = @ - 1,
                                     !.mgr.state = "active",
                                     !.loop.isPaused = FALSE,
                                     !.loop.pendingContext = TRUE]))
  /\ UNCHANGED <<srv, maxTokensPerCycle, daemonVars, extVars>>

\* MonologueManager.stop: triggers.destroy leaves a runLoop blocked in
\* waitForTrigger without timer and without listeners
stop(m) ==
  [m EXCEPT !.mgr.running = FALSE, !.mgr.stopped = TRUE,
            !.loop.isPaused = TRUE,
            !.threads = [t \in ThreadIds |->
                           IF @[t].pc = "waitTrigger"
                           THEN [@[t] EXCEPT !.pc = "abandoned"]
                           ELSE @[t]]]

Stop ==
  /\ mgr.running
  /\ Commit(stop(Mono))
  /\ UNCHANGED <<srv, maxTokensPerCycle, daemonVars, extVars>>

\* ====================================================== the cycle's prompt
\* generateMonologue, retrieveActivatedMemories and onCycleComplete: what a
\* cycle reads before it streams, and the calls it makes
SettlingLine == "No recent experiences. Thoughts settling.\n"

CycInit ==
  cyc = [pc |-> "wait", recent |-> 0, lastConversationSummary |-> FALSE,
         recentBuffer |-> "", pendingContext |-> FALSE, gate |-> FALSE,
         llmCalls |-> 0, embedCalls |-> 0, emitted |-> <<>>, encoding |-> 0,
         cycles |-> 0, talked |-> FALSE, summaryAt |-> 0, used |-> {},
         overwritten |-> FALSE]

\* the cold-start gate of generateMonologue
ColdStartGate(c, context) ==
  /\ c.recent = 0
  /\ ~c.lastConversationSummary
  /\ c.recentBuffer = ""
  /\ ~context

\* onCycleComplete for a buffer that is not empty: remember it and encode
\* it as a monologue experience (encodeExperience calls embedFn at once)
onCycleComplete(c, buffer) ==
  [c EXCEPT !.recentBuffer = buffer,
            !.embedCalls = @ + 1,
            !.encoding = @ + 1]

\* runLoop starts a cycle: runOneCycle calls generateMonologue, which runs
\* to its first suspension; a gated cycle runs to its end
CycleBegins ==
  /\ cyc.pc = "wait"
  /\ cyc.cycles < MaxCycles
  /\ LET context == cyc.pendingContext
         c0 == [cyc EXCEPT !.pendingContext = FALSE, !.llmCalls = 0,
                           !.embedCalls = 0, !.emitted = <<>>,
                           !.cycles = @ + 1]
     IN IF ColdStartGate(c0, context)
        THEN cyc' = onCycleComplete([c0 EXCEPT !.gate = TRUE,
                                               !.emitted = <<SettlingLine>>],
                                    SettlingLine)
        ELSE IF c0.recent = 0 /\ c0.recentBuffer = ""
                /\ ~c0.lastConversationSummary
        THEN cyc' = [c0 EXCEPT !.gate = FALSE, !.pc = "stream",
                               !.lastConversationSummary = FALSE,
                               !.llmCalls = @ + 1]
        ELSE cyc' = [c0 EXCEPT !.gate = FALSE, !.pc = "memEmbed",
                               !.embedCalls = @ + 1]
  /\ UNCHANGED <<daemonVars, monoVars, cb, ipc, sm, dk, mg, sa, sl>>

\* the embedding of retrieveActivatedMemories resolves or rejects: the
\* prompt is built, the summary is cleared and the model is called
MemEmbedReturns ==
  /\ cyc.pc = "memEmbed"
  /\ cyc' = [cyc EXCEPT !.pc = "stream", !.lastConversationSummary = FALSE,
                        !.llmCalls = @ + 1,
                        !.used = IF cyc.lastConversationSummary
                                 THEN @ \cup {[at |-> cyc.summaryAt,
                                               cycle |-> cyc.cycles]}
                                 ELSE @]
  /\ UNCHANGED <<daemonVars, monoVars, cb, ipc, sm, dk, mg, sa, sl>>

\* the cycle ends after the model streamed text (some) or nothing
StreamCompletes(some) ==
  /\ cyc.pc = "stream"
  /\ cyc' = IF some
            THEN onCycleComplete([cyc EXCEPT !.pc = "wait",
                                             !.emitted = <<"text">>], "text")
            ELSE [cyc EXCEPT !.pc = "wait"]
  /\ UNCHANGED <<daemonVars, monoVars, cb, ipc, sm, dk, mg, sa, sl>>

\* encodeExperience goes on after its embedding: the raw row is inserted
\* (ok), or the error is logged
EncodeReturns(ok) ==
  /\ cyc.encoding > 0
  /\ ok => cyc.recent < MaxRaw
  /\ cyc' = [cyc EXCEPT !.encoding = @ - 1,
                        !.recent = IF ok THEN @ + 1 ELSE @]
  /\ UNCHANGED <<daemonVars, monoVars, cb, ipc, sm, dk, mg, sa, sl>>

\* resumeAfterConversation(conversationSummary); history: summaryAt is the
\* number of cycles started before the call, overwritten tells that a
\* summary no prompt had used was replaced, used (set by the prompt of a
\* cycle) pairs the summary with the cycle that had it as resume context
ConversationEnded(summary) ==
  /\ cyc' = [cyc EXCEPT !.lastConversationSummary = summary,
                        !.talked = TRUE,
                        !.summaryAt = IF summary THEN cyc.cycles ELSE @,
                        !.overwritten = @ \/ cyc.lastConversationSummary]
  /\ UNCHANGED <<daemonVars, monoVars, cb, ipc, sm, dk, mg, sa, sl>>

\* the comfort timer: loop.resume(ambient)
ComfortResume ==
  /\ ~cyc.pendingContext
  /\ cyc' = [cyc EXCEPT !.pendingContext = TRUE, !.talked = TRUE]
  /\ UNCHANGED <<daemonVars, monoVars, cb, ipc, sm, dk, mg, sa, sl>>

\* a consolidation pass flags the raw experiences, or they grow older than
\* 24 hours
ExperiencesConsumed ==
  /\ cyc.recent > 0
  /\ cyc' = [cyc EXCEPT !.recent = 0]
  /\ UNCHANGED <<daemonVars, monoVars, cb, ipc, sm, dk, mg, sa, sl>>

\* ========================================================= circuit breaker
\* the distress levels computeDistressLevel is taken to return: none, the
\* threshold itself, and above it
DistressLevels == {0, DistressThreshold, Scale}

CbInit(n) ==
  cb = [maxConsecutiveDistress |-> n, consecutiveDistress |-> 0,
        events |-> <<>>, hist |-> <<>>]

Continue == [action |-> "continue", reason |-> "", severity |-> ""]

\* CircuitBreaker.logEvent: the rows of circuit_breaker_events afterwards
\* (the daemon constructs the breaker with the database; logEvent_noDb is a
\* breaker constructed without it)
logEvent_noDb(events, result, text) == events

\* a text is the characters lo .. hi - 1 of the check buffer; slice(a, b)
\* with 0 <= a <= b keeps those at offsets a .. b - 1, as far as there are
Text(len) == [lo |-> 0, hi |-> len]

slice(text, a, b) ==
  [lo |-> Min2(text.lo + a, text.hi), hi |-> Min2(text.lo + b, text.hi)]

logEvent(events, result, text) ==
  IF result.action # "continue"
  THEN Append(events, [action |-> result.action, reason |-> result.reason,
                       severity |-> IF result.severity # "" THEN result.severity
                                    ELSE "low",
                       bufferSnapshot |-> slice(text, 0, SnapshotChars)])
  ELSE events

\* the escalation test of evaluate
Escalates_late(count, n) == count > n

Escalates(count, n) == count >= n

\* CircuitBreaker.evaluate on a text with detectStuckLoop(text) = stuck and
\* computeDistressLevel(text).level = level
evaluate(b, stuck, level, text) ==
  IF stuck
  THEN LET result == [action |-> "interrupt", reason |-> "loop_detected",
                      severity |-> "medium"]
       IN [result |-> result,
           breaker |-> [b EXCEPT !.events = logEvent(@, result, text)]]
  ELSE IF level >= DistressThreshold
  THEN LET count == b.consecutiveDistress + 1
           result == IF Escalates(count, b.maxConsecutiveDistress)
                     THEN [action |-> "interrupt_and_comfort",
                           reason |-> "sustained_distress",
                           severity |-> "high"]
                     ELSE [action |-> "interrupt",
                           reason |-> "distress_detected",
                           severity |-> "medium"]
       IN [result |-> result,
           breaker |-> [b EXCEPT !.consecutiveDistress = count,
                                 !.events = logEvent(@, result, text)]]
  ELSE [result |-> Continue,
        breaker |-> [b EXCEPT !.consecutiveDistress = 0]]

\* what the text of an evaluation was: a stuck loop, distress, or neither
TextKind(stuck, level) ==
  IF stuck THEN "loop"
  ELSE IF level >= DistressThreshold THEN "distress" ELSE "normal"

\* MonologueManager.evaluateCircuitBreaker consults the breaker; after an
\* interrupt_and_comfort verdict it resets the breaker; len is the length
\* of the check buffer it hands over
BufferLengths == {CbCheckInterval, SnapshotChars, SnapshotChars + CbCheckInterval}

Evaluate(stuck, level, len) ==
  /\ Len(cb.hist) < MaxEvals
  /\ LET ev == evaluate(cb, stuck, level, Text(len))
         b1 == IF ev.result.action = "interrupt_and_comfort"
               THEN [ev.breaker EXCEPT !.consecutiveDistress = 0]
               ELSE ev.breaker
     IN cb' = [b1 EXCEPT !.hist =
                 Append(@, [kind |-> TextKind(stuck, level),
                            text |-> Text(len),
                            result |-> ev.result,
                            before |-> cb.consecutiveDistress,
                            after |-> ev.breaker.consecutiveDistress])]
  /\ UNCHANGED <<daemonVars, monoVars, cyc, ipc, sm, dk, mg, sa, sl>>

\* ------------------------------------------------------------ IPC server
\* One client connection of DaemonServer.  The client's byte stream is a
\* sequence of pieces: an ordinary line is one piece that ends with its
\* newline; a line longer than the buffer limit is a head of MaxBufferSize
\* bytes without newline and a tail that ends with the newline.
RequestIds == 1..MaxRequests
ConvIds == {"s1", "s2"}
Intros == {"", "Ann", "Bob", "just"}   \* the word after "I'm", "" when none
FalsePositives == {"just"}

NoRequest ==
  [kind |-> "none", conv |-> "", intro |-> "", pc |-> "unsent", chunks |-> 0,
   appended |-> FALSE, dropped |-> FALSE]

IpcInit ==
  ipc = [sent |-> 0, wire |-> <<>>, buffer |-> <<>>, out |-> <<>>,
         req |-> [r \in RequestIds |-> NoRequest],
         order |-> <<>>, delivered |-> {},
         currentConversation |-> [id |-> "", history |-> <<>>],
         userId |-> "", nameCalls |-> <<>>]

Piece(r, kind, bytes, head, nl) ==
  [rid |-> r, kind |-> kind, bytes |-> bytes, head |-> head, nl |-> nl]

PiecesOf(r, kind) ==
  IF kind = "big"
  THEN <<Piece(r, kind, MaxBufferSize, TRUE, FALSE),
         Piece(r, kind, BigTail, FALSE, TRUE)>>
  ELSE <<Piece(r, kind, SmallMessage, TRUE, TRUE)>>

RECURSIVE Bytes(_)
Bytes(ps) == IF ps = <<>> THEN 0 ELSE Head(ps).bytes + Bytes(Tail(ps))

Response(type, requestId) == [type |-> type, requestId |-> requestId]

\* sendResponse: one line written to the socket; requestId 0 is "absent"
sendResponse(st, type, requestId) ==
  [st EXCEPT !.out = Append(@, Response(type, requestId))]

extractUserName(intro) ==
  IF intro = "" \/ intro \in FalsePositives THEN "" ELSE intro

\* a name guard that ignores what is already known
NameUnknown_always(userId) == TRUE

NameUnknown(userId) == userId = ""

\* the callback given to the conversation handler
onUserNameDetected(calls, name) == Append(calls, name)

\* handleChat and handleMessage up to the first suspension: the session is
\* initialised or replaced, the name is detected, retrieval is started
handleChat(st, r) ==
  LET q == st.req[r]
      conv1 == IF st.currentConversation.id # q.conv
               THEN [id |-> q.conv, history |-> <<>>]
               ELSE st.currentConversation
      detectedName == IF NameUnknown(st.userId)
                      THEN extractUserName(q.intro) ELSE ""
  IN [st EXCEPT
        !.currentConversation = conv1,
        !.userId = IF detectedName # "" THEN detectedName ELSE @,
        !.nameCalls = IF detectedName # ""
                      THEN onUserNameDetected(@, detectedName) ELSE @,
        !.req[r].pc = "retrieve",
        !.order = Append(@, r)]

\* one complete line of the buffer: JSON.parse, the type test, handleRequest
handleLine(st, line) ==
  IF Len(line) = 1 /\ line[1].kind = "chat" /\ line[1].head
  THEN handleChat(st, line[1].rid)
  ELSE sendResponse(st, "error", 0)

FirstNewline(ps) ==
  IF \E i \in 1..Len(ps) : ps[i].nl
  THEN CHOOSE i \in 1..Len(ps) :
         ps[i].nl /\ \A j \in 1..(i - 1) : ~ps[j].nl
  ELSE 0

\* buffer.split('\n'): every complete line is handled in order, the last
\* partial line stays in the buffer
RECURSIVE handleLines(_, _)
handleLines(st, ps) ==
  LET i == FirstNewline(ps)
  IN IF i = 0 THEN [st EXCEPT !.buffer = ps]
     ELSE handleLines(handleLine(st, SubSeq(ps, 1, i)),
                      SubSeq(ps, i + 1, Len(ps)))

\* requests whose last byte is in these pieces
EndingIn(ps) == {ps[i].rid : i \in {j \in 1..Len(ps) : ps[j].nl}}

\* socket.on('data')
onData(st, chunk) ==
  LET buffer == st.buffer \o chunk
      st1 == [st EXCEPT !.delivered = @ \cup EndingIn(chunk)]
  IN IF Bytes(buffer) > MaxBufferSize
     THEN [sendResponse(st1, "error", 0) EXCEPT !.buffer = <<>>]
     ELSE handleLines(st1, buffer)

\* the client writes one message: a chat request, a line that is not JSON,
\* or a line longer than the limit
ClientSends(kind, conversationId, intro) ==
  /\ ipc.sent < MaxRequests
  /\ kind # "chat" => (conversationId = "s1" /\ intro = "")
  /\ LET r == ipc.sent + 1
     IN ipc' = [ipc EXCEPT
                  !.sent = r,
                  !.wire = @ \o PiecesOf(r, kind),
                  !.req[r] = [NoRequest EXCEPT !.kind = kind, !.conv = conversationId,
                                               !.intro = intro, !.pc = "wire"]]
  /\ UNCHANGED <<daemonVars, monoVars, cyc, cb, sm, dk, mg, sa, sl>>

\* one data event carries the next k pieces of the stream: the head of a
\* long line on its own, or lines and tails up to the size of one read
DataArrives(k) ==
  /\ k \in 1..Len(ipc.wire)
  /\ LET chunk == SubSeq(ipc.wire, 1, k)
     IN /\ k = 1 \/ Bytes(chunk) <= ReadSize
        /\ ipc' = [onData(ipc, chunk) EXCEPT
                     !.wire = SubSeq(ipc.wire, k + 1, Len(ipc.wire))]
  /\ UNCHANGED <<daemonVars, monoVars, cyc, cb, sm, dk, mg, sa, sl>>

\* handleMessage, retrieval settles (its failure is caught): the context is
\* assembled from the history as it is now and the model call starts
RetrievalSettles(r) ==
  /\ ipc.req[r].pc = "retrieve"
  /\ ipc' = [ipc EXCEPT !.req[r].pc = "stream"]
  /\ UNCHANGED <<daemonVars, monoVars, cyc, cb, sm, dk, mg, sa, sl>>

\* the reply stream yields a chunk: onChunk sends it
ReplyChunk(r) ==
  /\ ipc.req[r].pc = "stream"
  /\ ipc.req[r].chunks < MaxChunks
  /\ ipc' = [sendResponse(ipc, "chat-chunk", r) EXCEPT !.req[r].chunks = @ + 1]
  /\ UNCHANGED <<daemonVars, monoVars, cyc, cb, sm, dk, mg, sa, sl>>

\* the reply stream ends: the exchange is pushed to the history of the
\* current conversation and the encoding starts
ReplyEnds(r) ==
  /\ ipc.req[r].pc = "stream"
  /\ ipc' = [ipc EXCEPT
               !.currentConversation.history = Append(@, r),
               !.req[r].appended = TRUE,
               !.req[r].pc = "encode"]
  /\ UNCHANGED <<daemonVars, monoVars, cyc, cb, sm, dk, mg, sa, sl>>

\* the model call raises: handleMessage rejects, handleChat's catch answers
ReplyFails(r) ==
  /\ ipc.req[r].pc = "stream"
  /\ ipc' = [sendResponse(ipc, "error", r) EXCEPT !.req[r].pc = "done"]
  /\ UNCHANGED <<daemonVars, monoVars, cyc, cb, sm, dk, mg, sa, sl>>

\* encodeExperience settles (its failure is caught): handleMessage returns
\* and handleChat sends chat-done
ExchangeEncoded(r) ==
  /\ ipc.req[r].pc = "encode"
  /\ ipc' = [sendResponse(ipc, "chat-done", r) EXCEPT !.req[r].pc = "done"]
  /\ UNCHANGED <<daemonVars, monoVars, cyc, cb, sm, dk, mg, sa, sl>>

\* ------------------------------------------------ self-model manager
\* SelfModelManager beside the consolidation engine: the manager merges into
\* its cached model and saves it, the engine merges into the model it
\* reloads from the store
FocusWords == {"", "memory"}
TendencyWords == {"", "metaphors", "lists"}
ValueWords == {"", "curiosity", "persistence"}

MergeInputs ==
  [currentFocus : FocusWords, newTendency : TendencyWords,
   newValue : ValueWords]

SmInit ==
  sm = [cached |-> BlankSelfModel, stored |-> BlankSelfModel, merges |-> 0,
        last |-> [by |-> "none", upd |-> NoUpdates,
                  before |-> BlankSelfModel, result |-> BlankSelfModel]]

\* a merge that pushes without looking
mergeUpdate_push(model, update) ==
  [model EXCEPT
     !.currentFocus = IF update.currentFocus # ""
                      THEN update.currentFocus ELSE @,
     !.tendencies = IF update.newTendency # ""
                    THEN Append(@, update.newTendency) ELSE @,
     !.values = IF update.newValue # ""
                THEN Append(@, update.newValue) ELSE @]

mergeUpdate(model, update) ==
  LET m1 == IF update.currentFocus # ""
            THEN [model EXCEPT !.currentFocus = update.currentFocus]
            ELSE model
      m2 == IF update.newTendency # ""
               /\ update.newTendency \notin Range(m1.tendencies)
            THEN [m1 EXCEPT !.tendencies = Append(@, update.newTendency)]
            ELSE m1
      m3 == IF update.newValue # "" /\ update.newValue \notin Range(m2.values)
            THEN [m2 EXCEPT !.values = Append(@, update.newValue)]
            ELSE m2
  IN m3

\* SelfModelManager.mergeUpdate: getOrCreate, merge, save
ManagerMerges(update) ==
  /\ sm.merges < MaxMerges
  /\ LET model == sm.cached
         merged == mergeUpdate(model, update)
     IN sm' = [cached |-> merged, stored |-> merged,
               merges |-> sm.merges + 1,
               last |-> [by |-> "manager", upd |-> update,
                         before |-> model, result |-> merged]]
  /\ UNCHANGED <<daemonVars, monoVars, cyc, cb, ipc, dk, mg, sa, sl>>

\* consolidate, step 5 on its own: reload, merge, save; the manager's cached
\* model is not told
ConsolidationMerges(update) ==
  /\ sm.merges < MaxMerges
  /\ LET freshModel == sm.stored
         merged == ApplySelfModelUpdates(freshModel, update)
     IN sm' = [sm EXCEPT
                 !.stored = merged,
                 !.merges = @ + 1,
                 !.last = [by |-> "consolidation", upd |-> update,
                           before |-> freshModel, result |-> merged]]
  /\ UNCHANGED <<daemonVars, monoVars, cyc, cb, ipc, dk, mg, sa, sl>>

\* ------------------------------------------------------- decay on its own
\* applyDecay over graphs of two nodes and one link, with a system clock
\* that may be set back
DecaySaliences == {LowSalience, MidSalience, HighSalience}
DecayStrengths == {LinkStrengthInit, LinkStrengthInit + LinkBoost}
DecayDays == {0, TickDays}

DecayNode(id, salience, lastAccessed) ==
  [id |-> id, salience |-> salience, lastAccessed |-> lastAccessed,
   accessCount |-> 0]

DecayGraph(s1, s2, a1, a2, strength) ==
  addLink(addNode(addNode(EmptyGraph, DecayNode(1, s1, a1)),
                  DecayNode(2, s2, a2)),
          1, 2, strength, "thematic")

DkOf(g) == [g |-> g, clock |-> TickDays, before |-> g, runs |-> 0, steps |-> 0]

DkInit ==
  dk = DkOf(DecayGraph(HighSalience, MidSalience, 0, 0, LinkStrengthInit))

DkDraw ==
  \E s1 \in DecaySaliences, s2 \in DecaySaliences,
     a1 \in DecayDays, a2 \in DecayDays, strength \in DecayStrengths :
    dk = DkOf(DecayGraph(s1, s2, a1, a2, strength))

\* Date.now() between two calls: the time passes, or the clock is set back
ClockMoves(days) ==
  /\ dk.steps < MaxClockSteps
  /\ dk.clock + days >= 0
  /\ dk' = [dk EXCEPT !.clock = @ + days, !.steps = @ + 1]
  /\ UNCHANGED <<daemonVars, monoVars, cyc, cb, ipc, sm, mg, sa, sl>>

\* a retrieval reinforces a node: lastAccessed = new Date()
NodeAccessed(id) ==
  /\ dk.steps < MaxClockSteps
  /\ HasNode(dk.g, id)
  /\ getNode(dk.g, id).lastAccessed # dk.clock
  /\ dk' = [dk EXCEPT !.g = reinforceNode(@, id, dk.clock),
                      !.steps = @ + 1]
  /\ UNCHANGED <<daemonVars, monoVars, cyc, cb, ipc, sm, mg, sa, sl>>

\* graph.applyDecay
DecayRuns ==
  /\ dk.runs < MaxDecays
  /\ dk' = [dk EXCEPT !.g = applyDecay(dk.g, dk.clock),
                      !.before = dk.g,
                      !.runs = @ + 1]
  /\ UNCHANGED <<daemonVars, monoVars, cyc, cb, ipc, sm, mg, sa, sl>>

\* ----------------------------------------------------- the graph on its own
\* One memory graph under the operations that change it (consolidation's
\* insert or merge of a candidate, retrieval, decay, persist and hydrate)
\* with a clock that may be set back; `last` remembers the latest operation
Candidates ==
  [summary : {<<1>>}, salience : {LowSalience, MidSalience, HighSalience}]

RetrieveLimits == {1, MonologueLimit}
RetrieveThresholds == {RetrieveThreshold, MonologueThreshold}

NoOp ==
  [op |-> "none", before |-> EmptyGraph, ep |-> [summary |-> <<>>, salience |-> 0],
   embedding |-> <<0, 0>>, limit |-> 0, threshold |-> 0, returned |-> <<>>]

MgInit ==
  mg = [g |-> EmptyGraph, clock |-> TickDays, ops |-> 0, last |-> NoOp]

\* a graph as wake hydrates it: two episodes, the second linked to the first
HydratedNode(id, embedding, salience) ==
  [id |-> id, embedding |-> embedding, salience |-> salience,
   created |-> NoDate, lastAccessed |-> 0, accessCount |-> 0,
   summary |-> <<id>>, patterns |-> FALSE]

HydratedPair(strength) ==
  addLink(addNode(addNode(EmptyGraph, HydratedNode(1, <<5, 0>>, HighSalience)),
                  HydratedNode(2, <<4, 3>>, MidSalience)),
          2, 1, strength, "thematic")

MgDraw ==
  \E g \in {EmptyGraph} \cup
            {HydratedPair(st) : st \in {LinkStrengthInit, NearCapLink}} :
    mg = [g |-> g, clock |-> TickDays, ops |-> 0, last |-> NoOp]

\* consolidate, step 3: whether the candidate merges into its nearest node
Merges(g, embedding) ==
  /\ nodeCount(g) > 0
  /\ cosineSimilarity(embedding, findNearestNodes(g, embedding, 1)[1].embedding)
       > MergeThreshold

\* one candidate episode of a pass, embedded, is merged or inserted
EpisodeAbsorbed(ep, embedding) ==
  /\ mg.ops < MaxGraphOps
  /\ Merges(mg.g, embedding) \/ nodeCount(mg.g) < MaxIds
  /\ mg' = [mg EXCEPT
              !.g = MergeOrInsert(mg.g, ep, embedding, mg.clock),
              !.ops = @ + 1,
              !.last = [NoOp EXCEPT
                          !.op = IF Merges(mg.g, embedding)
                                 THEN "merge" ELSE "insert",
                          !.before = mg.g, !.ep = ep,
                          !.embedding = embedding]]
  /\ UNCHANGED <<daemonVars, monoVars, cyc, cb, ipc, sm, dk, sa, sl>>

\* the energies of a retrieval on this graph fit the integers of the model
EnergiesFit(g) ==
  /\ \A i \in 1..Len(g.nodes) : g.nodes[i].salience <= Scale
  /\ \A id \in NodeIds : \A j \in 1..Len(g.links[id]) :
       g.links[id][j].strength <= Scale

\* retrieve, as the conversation and the monologue call it
MemoriesRetrieved(q, limit, threshold) ==
  /\ mg.ops < MaxGraphOps
  /\ EnergiesFit(mg.g)
  /\ mg' = [mg EXCEPT
              !.g = retrieve(mg.g, q, limit, RetrieveMaxHops,
                             RetrieveDecayPerHop, threshold, mg.clock),
              !.ops = @ + 1,
              !.last = [NoOp EXCEPT
                          !.op = "retrieve", !.before = mg.g,
                          !.embedding = q, !.limit = limit,
                          !.threshold = threshold,
                          !.returned =
                            RetrieveIds(mg.g, q, limit, RetrieveMaxHops,
                                        RetrieveDecayPerHop, threshold)]]
  /\ UNCHANGED <<daemonVars, monoVars, cyc, cb, ipc, sm, dk, sa, sl>>

\* consolidate, step 7
GraphDecays ==
  /\ mg.ops < MaxGraphOps
  /\ mg' = [mg EXCEPT !.g = applyDecay(mg.g, mg.clock),
                      !.ops = @ + 1,
                      !.last = [NoOp EXCEPT !.op = "decay", !.before = mg.g]]
  /\ UNCHANGED <<daemonVars, monoVars, cyc, cb, ipc, sm, dk, sa, sl>>

\* sleep then wake: the graph is persisted to an empty store and hydrated
GraphReloaded ==
  /\ mg.ops < MaxGraphOps
  /\ nodeCount(mg.g) > 0
  /\ mg' = [mg EXCEPT !.g = hydrateGraph(persistGraph(mg.g, EmptyDb, 0).db),
                      !.ops = @ + 1,
                      !.last = [NoOp EXCEPT !.op = "reload", !.before = mg.g]]
  /\ UNCHANGED <<daemonVars, monoVars, cyc, cb, ipc, sm, dk, sa, sl>>

\* Date.now() between two operations: a half-life passes, or the clock is
\* set back by one
GraphClockMoves(days) ==
  /\ mg.ops < MaxGraphOps
  /\ mg.clock + days >= 0
  /\ mg' = [mg EXCEPT !.clock = @ + days, !.ops = @ + 1,
                      !.last = [NoOp EXCEPT !.op = "clock", !.before = mg.g]]
  /\ UNCHANGED <<daemonVars, monoVars, cyc, cb, ipc, sm, dk, sa, sl>>

\* ----------------------------------------- spreading activation on its own
\* spreadActivation over the graphs on three nodes with links 1 -> 3, 2 -> 3,
\* 1 -> 2 and 3 -> 1 (strength 0: no such link), seeded at node 1, at node 2
\* or at both
SeedEnergies == {EnergyScale, 0 - (EnergyScale \div 5)}
SeedSets == {"both", "first", "second"}

LinksOf(s13, s23, s12, s31) ==
  LET l(t, s) == IF s > 0
                 THEN <<[targetId |-> t, strength |-> s, type |-> "thematic"]>>
                 ELSE <<>>
  IN [id \in NodeIds |->
        IF id = 1 THEN l(2, s12) \o l(3, s13)
        ELSE IF id = 2 THEN l(3, s23)
        ELSE IF id = 3 THEN l(1, s31)
        ELSE <<>>]

SeedsOf(which, e1, e2) ==
  LET m1 == IF which \in {"both", "first"}
            THEN MapAdd(EmptyMap, 1, e1) ELSE EmptyMap
  IN IF which \in {"both", "second"} THEN MapAdd(m1, 2, e2) ELSE m1

SaOf(s13, s23, s12, s31, e1, e2, hops) ==
  [g |-> [nodes |-> <<>>, links |-> LinksOf(s13, s23, s12, s31)],
   e1 |-> e1, e2 |-> e2, hops |-> hops,
   done |-> {}, res |-> [w \in SeedSets |-> EmptyMap]]

SaInit ==
  sa = SaOf(StrongLink, WeakLink, 0, 0, EnergyScale, EnergyScale, 1)

SaDraw ==
  \E s13 \in {0, WeakLink, StrongLink}, s23 \in {WeakLink, StrongLink},
     s12 \in {0, StrongLink}, s31 \in {0, WeakLink},
     e1 \in SeedEnergies, e2 \in SeedEnergies, hops \in 1..RetrieveMaxHops :
    sa = SaOf(s13, s23, s12, s31, e1, e2, hops)

\* graph.spreadActivation(seeds, { maxHops, decayPerHop })
Spreads(which) ==
  /\ which \notin sa.done
  /\ sa' = [sa EXCEPT
              !.done = @ \cup {which},
              !.res[which] =
                spreadActivation(sa.g, SeedsOf(which, sa.e1, sa.e2), sa.hops,
                                 RetrieveDecayPerHop)]
  /\ UNCHANGED <<daemonVars, monoVars, cyc, cb, ipc, sm, dk, mg, sl>>

\* ============================================ sleep and the running cycle
\* DaemonLifecycle.sleep next to the runLoop of the monologue: the cycle in
\* progress and its buffer, the encodeExperience calls waiting for their
\* embedding, the raw rows of the monologue and the store.  The breaker
\* lets every token pass and no buffer is found quiescent.
SlInit ==
  sl = [pc |-> "awake", dbOpen |-> TRUE, exited |-> FALSE, encoding |-> 0,
        rows |-> 0, loaded |-> 0]

\* the finally block of runOneCycle: a cycle of runLoop t that ended in the
\* step to m hands a buffer that is not empty to onCycleComplete, which
\* calls encodeExperience; that call waits for embedFn
cycleCompleted(m, t) ==
  IF threads[t].pc = "cycle" /\ m.threads[t].pc # "cycle" /\ m.loop.bufLen > 0
  THEN [sl EXCEPT !.encoding = @ + 1]
  ELSE sl

\* the stream of the cycle of runLoop t yields a token
SleepToken(t) ==
  /\ ~sl.exited
  /\ threads[t].pc = "cycle"
  /\ \E len \in TokenLens, boundary \in BOOLEAN :
       /\ loop.isPaused => (len = ShortToken /\ ~boundary)
       /\ LET m == cycleToken(Mono, t, len, boundary, "continue", FALSE)
          IN /\ Commit(m)
             /\ sl' = cycleCompleted(m, t)
  /\ UNCHANGED <<srv, maxTokensPerCycle, daemonVars, cyc, cb, ipc, sm, dk,
                 mg, sa>>

\* the stream of the cycle ends
SleepStreamEnds(t) ==
  /\ ~sl.exited
  /\ threads[t].pc = "cycle"
  /\ LET m == endCycle(Mono, t, "done")
     IN /\ Commit(m)
        /\ sl' = cycleCompleted(m, t)
  /\ UNCHANGED <<srv, maxTokensPerCycle, daemonVars, cyc, cb, ipc, sm, dk,
                 mg, sa>>

\* encodeExperience goes on after its embedding: insertRawExperience
EmbeddingArrives ==
  /\ ~sl.exited
  /\ sl.encoding > 0
  /\ sl' = [sl EXCEPT !.encoding = @ - 1, !.rows = @ + 1]
  /\ UNCHANGED <<daemonVars, monoVars, cyc, cb, ipc, sm, dk, mg, sa>>

\* sleep() once the final pass has returned, and shutdown() after it:
\* persistGraph, db.close, process.exit
closeAndExit(s) == [s EXCEPT !.pc = "exited", !.dbOpen = FALSE,
                             !.exited = TRUE]

\* shutdown() after server.stop(): sleep() clears the timer, stops the
\* monologue and starts the final pass, which waits for the model when
\* there are unprocessed raw rows and otherwise returns in the same turn
SleepBegins ==
  /\ sl.pc = "awake"
  /\ mgr.running
  /\ Commit(stop(Mono))
  /\ sl' = IF sl.rows > 0
           THEN [sl EXCEPT !.pc = "finalPass", !.loaded = sl.rows]
           ELSE closeAndExit(sl)
  /\ UNCHANGED <<srv, maxTokensPerCycle, daemonVars, cyc, cb, ipc, sm, dk,
                 mg, sa>>

\* the final pass returns (or throws, which sleep() catches): the rows it
\* loaded are flagged, then the store is closed and the process exits
FinalPassEnds ==
  /\ sl.pc = "finalPass"
  /\ sl' = closeAndExit([sl EXCEPT !.rows = @ - sl.loaded, !.loaded = 0])
  /\ UNCHANGED <<daemonVars, monoVars, cyc, cb, ipc, sm, dk, mg, sa>>

\* ------------------------------------------------------- specifications
\* Spec: consolidation passes of the timer and of IPC requests, running
\* concurrently with conversation turns and the clock; every store write
\* succeeds
LaterInit == MgInit /\ SaInit /\ SlInit

ExtInit ==
  /\ CycInit /\ CbInit(DefaultMaxConsecutiveDistress) /\ IpcInit /\ SmInit
  /\ DkInit /\ LaterInit

Init == DaemonInit /\ faultsLeft = 0 /\ MonoInit(LargeBudget) /\ ExtInit

Next ==
  \/ \E p \in {"scheduled", "ipc"} : StartPass(p)
  \/ \E p \in {"scheduled", "ipc"} : LlmReturn(p)
  \/ \E p \in {"scheduled", "ipc"} : EmbedReturn(p)
  \/ \E p \in {"scheduled", "ipc"} : EmbedFails(p)
  \/ \E name \in Names : ChatStart(name)
  \/ \E q \in Embeddings : ChatRetrieve(q)
  \/ ChatRetrieveFails
  \/ \E ok \in BOOLEAN : ChatStreamEnds(ok)
  \/ \E ok \in BOOLEAN : ChatEncoded(ok)
  \/ EncodeMonologue
  \/ Tick

vars == <<daemonVars, monoVars, extVars>>

Spec == Init /\ [][Next]_vars

\* SpecMono: the monologue manager and loop under chats, timers and the
\* circuit breaker
InitMono ==
  /\ DaemonInit /\ faultsLeft = 0
  /\ \E b \in Budgets : MonoInit(b)
  /\ ExtInit

NextMono ==
  \/ Start
  \/ \E t \in ThreadIds : Token(t)
  \/ \E t \in ThreadIds : StreamEnds(t)
  \/ \E t \in ThreadIds : NetworkError(t)
  \/ \E t \in ThreadIds : NetSleepDone(t)
  \/ \E t \in ThreadIds : PollPaused(t)
  \/ \E t \in ThreadIds : IdleTimerFires(t)
  \/ HandleChat
  \/ ConversationTimerFires
  \/ ComfortTimerFires
  \/ Stop

SpecMono == InitMono /\ [][NextMono]_vars

\* SpecLife: the two shutdown paths, with the passes and the monologue's
\* experiences that may be in flight when they start; every store write
\* succeeds.  What the daemon itself schedules is weakly fair; signals and
\* requests are not.
NextLife ==
  \/ StartPass("scheduled")
  \/ \E p \in PassIds : LlmReturn(p)
  \/ \E p \in PassIds : EmbedReturn(p)
  \/ \E p \in PassIds : EmbedFails(p)
  \/ EncodeMonologue
  \/ HandleShutdown
  \/ ShutdownDeferred
  \/ Signal
  \/ Sleep

SpecLife ==
  /\ Init
  /\ [][NextLife]_vars
  /\ WF_vars(ShutdownDeferred)
  /\ WF_vars(Sleep)
  /\ WF_vars(\E p \in PassIds : LlmReturn(p))
  /\ WF_vars(\E p \in PassIds : EmbedReturn(p))

\* SpecFault: scheduled passes whose persist may hit a failing store write
InitFault ==
  /\ DaemonInit /\ faultsLeft = MaxPersistFailures /\ MonoInit(LargeBudget)
  /\ ExtInit

NextFault ==
  \/ StartPass("scheduled")
  \/ LlmReturn("scheduled")
  \/ EmbedReturn("scheduled")
  \/ EmbedFails("scheduled")
  \/ EncodeMonologue
  \/ Tick

SpecFault == InitFault /\ [][NextFault]_vars

\* SpecCycle: the cycles of the monologue with what they read (recent
\* experiences, conversation summary, previous buffer, resume context)
InitCycle == Init

NextCycle ==
  \/ CycleBegins
  \/ MemEmbedReturns
  \/ \E some \in BOOLEAN : StreamCompletes(some)
  \/ \E ok \in BOOLEAN : EncodeReturns(ok)
  \/ \E summary \in BOOLEAN : ConversationEnded(summary)
  \/ ComfortResume
  \/ ExperiencesConsumed

SpecCycle == InitCycle /\ [][NextCycle]_vars

\* SpecBreaker: the evaluations of the circuit breaker, for every
\* configured max_consecutive_distress
InitBreaker ==
  /\ DaemonInit /\ faultsLeft = 0 /\ MonoInit(LargeBudget) /\ CycInit
  /\ \E n \in 1..MaxDistressRun : CbInit(n)
  /\ IpcInit /\ SmInit /\ DkInit /\ LaterInit

NextBreaker ==
  \E stuck \in BOOLEAN, level \in DistressLevels, len \in BufferLengths :
    Evaluate(stuck, level, len)

SpecBreaker == InitBreaker /\ [][NextBreaker]_vars

\* SpecIpc: one client connection: lines, broken lines and over-long lines
\* arriving in data events, and the chat requests they start
InitIpc == Init

NextIpc ==
  \/ \E kind \in {"chat", "bad", "big"}, conversationId \in ConvIds,
        intro \in Intros :
       ClientSends(kind, conversationId, intro)
  \/ \E k \in 1..(2 * MaxRequests) : DataArrives(k)
  \/ \E r \in RequestIds :
       \/ RetrievalSettles(r)
       \/ ReplyChunk(r)
       \/ ReplyEnds(r)
       \/ ReplyFails(r)
       \/ ExchangeEncoded(r)

SpecIpc == InitIpc /\ [][NextIpc]_vars

\* SpecSelf: self-model merges of the manager and of consolidation, in any
\* order, over every update
InitSelf == Init

NextSelf ==
  \E update \in MergeInputs :
    \/ ManagerMerges(update)
    \/ ConsolidationMerges(update)

SpecSelf == InitSelf /\ [][NextSelf]_vars

\* SpecDecay: applyDecay over the drawn graphs while the clock moves and
\* nodes are accessed
InitDecay ==
  /\ DaemonInit /\ faultsLeft = 0 /\ MonoInit(LargeBudget)
  /\ CycInit /\ CbInit(DefaultMaxConsecutiveDistress) /\ IpcInit /\ SmInit
  /\ DkDraw /\ LaterInit

NextDecay ==
  \/ \E days \in {TickDays, 0 - TickDays} : ClockMoves(days)
  \/ \E id \in NodeIds : NodeAccessed(id)
  \/ DecayRuns

SpecDecay == InitDecay /\ [][NextDecay]_vars

\* SpecGraph: the memory graph under insert, merge, retrieval, decay,
\* persist and hydrate, for every candidate salience and query
InitGraph ==
  /\ DaemonInit /\ faultsLeft = 0 /\ MonoInit(LargeBudget)
  /\ CycInit /\ CbInit(DefaultMaxConsecutiveDistress) /\ IpcInit /\ SmInit
  /\ DkInit /\ MgDraw /\ SaInit /\ SlInit

NextGraph ==
  \/ \E ep \in Candidates, embedding \in Embeddings :
       EpisodeAbsorbed(ep, embedding)
  \/ \E q \in Embeddings, limit \in RetrieveLimits,
        threshold \in RetrieveThresholds :
       MemoriesRetrieved(q, limit, threshold)
  \/ GraphDecays
  \/ GraphReloaded
  \/ \E days \in {TickDays, 0 - TickDays} : GraphClockMoves(days)

SpecGraph == InitGraph /\ [][NextGraph]_vars

\* SpecSpread: spreadActivation over the drawn link strengths, seed
\* energies and hop limits
InitSpread ==
  /\ DaemonInit /\ faultsLeft = 0 /\ MonoInit(LargeBudget)
  /\ CycInit /\ CbInit(DefaultMaxConsecutiveDistress) /\ IpcInit /\ SmInit
  /\ DkInit /\ MgInit /\ SaDraw /\ SlInit

NextSpread == \E which \in SeedSets : Spreads(which)

SpecSpread == InitSpread /\ [][NextSpread]_vars

\* SpecSleep: sleep() while the monologue runs: the cycle in progress, the
\* encodings in flight and the close of the store
InitSleep ==
  /\ DaemonInit /\ faultsLeft = 0
  /\ \E b \in Budgets : MonoInit(b)
  /\ ExtInit

NextSleep ==
  \/ ~sl.exited /\ Start
  \/ \E t \in ThreadIds : SleepToken(t)
  \/ \E t \in ThreadIds : SleepStreamEnds(t)
  \/ \E t \in ThreadIds : ~sl.exited /\ IdleTimerFires(t)
  \/ EmbeddingArrives
  \/ SleepBegins
  \/ FinalPassEnds

SpecSleep == InitSleep /\ [][NextSleep]_vars

\* SpecErrors: cycles that throw and scheduled passes that throw, with the
\* timers of the loop and of the consolidation weakly fair.  A cycle ends,
\* and a pass fails, only while the bounds leave room for a next one.
LoopGoesOn ==
  \/ \E t \in ThreadIds : NetSleepDone(t)
  \/ \E t \in ThreadIds : IdleTimerFires(t)

NextErrors ==
  \/ Start
  \/ \E t \in ThreadIds : counts.cycles < MaxCycles /\ StreamEnds(t)
  \/ \E t \in ThreadIds : counts.cycles < MaxCycles /\ NetworkError(t)
  \/ LoopGoesOn
  \/ StartPass("scheduled")
  \/ LlmReturn("scheduled")
  \/ EmbedReturn("scheduled")
  \/ passesStarted < MaxPasses /\ EmbedFails("scheduled")
  \/ EncodeMonologue

SpecErrors ==
  /\ Init
  /\ [][NextErrors]_vars
  /\ WF_vars(LoopGoesOn)
  /\ WF_vars(StartPass("scheduled"))

\* SpecNear: episodes whose embeddings are far enough apart not to merge
\* (cosines 4/5, 7/25, -4/5 and -1) are inserted one after the other, and
\* findNearestNodes is asked for the nodes nearest to a query
FarEmbeddings == {<<5, 0>>, <<4, 3>>, <<4, -3>>, <<-5, 0>>}

NearestLimits == {1, NearestForLinks}

NearestAsked(q, limit) ==
  /\ mg.ops < MaxGraphOps
  /\ nodeCount(mg.g) > 0
  /\ mg' = [mg EXCEPT
              !.ops = @ + 1,
              !.last = [NoOp EXCEPT
                          !.op = "nearest", !.before = mg.g,
                          !.embedding = q, !.limit = limit,
                          !.returned =
                            LET r == findNearestNodes(mg.g, q, limit)
                            IN [j \in 1..Len(r) |-> r[j].id]]]
  /\ UNCHANGED <<daemonVars, monoVars, cyc, cb, ipc, sm, dk, sa, sl>>

InitNear ==
  /\ DaemonInit /\ faultsLeft = 0 /\ MonoInit(LargeBudget)
  /\ CycInit /\ CbInit(DefaultMaxConsecutiveDistress) /\ IpcInit /\ SmInit
  /\ DkInit /\ MgInit /\ SaInit /\ SlInit

NextNear ==
  \/ \E ep \in Candidates, embedding \in FarEmbeddings :
       EpisodeAbsorbed(ep, embedding)
  \/ \E q \in FarEmbeddings, limit \in NearestLimits : NearestAsked(q, limit)

SpecNear == InitNear /\ [][NextNear]_vars

\* ================================================================== claims
RECURSIVE IsSubseq(_, _)
IsSubseq(a, b) ==
  IF a = <<>> THEN TRUE
  ELSE IF b = <<>> THEN FALSE
  ELSE IF Head(a) = Head(b) THEN IsSubseq(Tail(a), Tail(b))
  ELSE IsSubseq(a, Tail(b))

\* C1: once the daemon is told to stop, by a shutdown request or by a
\* termination signal, it eventually exits having stopped the timer, stopped
\* the monologue, run the final consolidation, persisted the graph and closed
\* the store, in that order.
C1_StopRunsSleepSequence ==
  (life.ipcPc = "deferred" \/ life.sigPc = "stopping")
    ~> (life.exited /\ IsSubseq(SleepSequence, life.log))

\* a pass of caller p returns or throws in this step
PassEnds(p) == pass'[p] # pass[p] /\ pass'[p].pc = "idle"

\* C2: a pass that completes flags exactly the raw experiences it loaded as
\* unprocessed: each of them is flagged, no other row changes, and a row
\* appended while the pass ran keeps the flag it had.
C2_FlagsExactlyLoaded ==
  [][\A p \in PassIds :
       (PassEnds(p) /\ pass'[p].outcome = "ok") =>
         /\ Len(rawProcessed') = Len(rawProcessed)
         /\ \A i \in 1..Len(rawProcessed) :
              rawProcessed'[i] = (rawProcessed[i] \/ i \in pass'[p].raw)
         /\ \A i \in 1..Len(rawProcessed) :
              i > pass'[p].lenAtLoad => rawProcessed'[i] = rawProcessed[i]]_vars

C2_Witness ==
  \E p \in PassIds :
    /\ pass[p].pc = "idle" /\ pass[p].outcome = "ok"
    /\ pass[p].raw # {}
    /\ \A i \in pass[p].raw : rawProcessed[i]
    /\ \E i \in 1..Len(rawProcessed) : i > pass[p].lenAtLoad /\ ~rawProcessed[i]

\* salience values no candidate was given: the node has decayed
Decayed(n) == \A j \in 1..MaxEpisodes : n.salience # CandidateSalience(j)

C4_NoHalfMutatedRead ==
  [][(\E q \in Embeddings : ChatRetrieve(q)) => ~HalfMutated]_vars

C6_PersistAtomic ==
  [][faultsLeft' < faultsLeft => db' = db]_vars

\* what C7 compares: nodes with embedding, salience, access time and count;
\* links with source, target, kind and strength
GraphView(g) ==
  [nodes |-> {[id |-> g.nodes[i].id, embedding |-> g.nodes[i].embedding,
               salience |-> g.nodes[i].salience,
               lastAccessed |-> g.nodes[i].lastAccessed,
               accessCount |-> g.nodes[i].accessCount] : i \in 1..Len(g.nodes)},
   edges |-> UNION {{[source |-> id, target |-> g.links[id][j].targetId,
                      type |-> g.links[id][j].type,
                      strength |-> g.links[id][j].strength] :
                       j \in 1..Len(g.links[id])} : id \in NodeIds}]

\* C7: persisting the graph and hydrating a graph from the store gives the
\* same nodes and the same links.
C7_RoundTrip ==
  LET pr == persistGraph(graph, db, 0)
  IN pr.ok /\ GraphView(hydrateGraph(pr.db)) = GraphView(graph)

C7_Witness ==
  /\ linkCount(graph) > 0
  /\ \E i \in 1..Len(graph.nodes) :
       graph.nodes[i].accessCount > 0
  /\ \E i \in 1..Len(graph.nodes) : Decayed(graph.nodes[i])
  /\ \E id \in NodeIds :
       \E j \in 1..Len(graph.links[id]) :
         graph.links[id][j].strength # LinkStrengthInit
  /\ persistGraph(graph, db, 0).db # db
  /\ GraphView(hydrateGraph(persistGraph(graph, db, 0).db)) = GraphView(graph)

\* C8: once pause has been called during a cycle, no further token is
\* appended to the buffer of that cycle (the append and the delivery to the
\* token listeners are one step of the loop).
C8_NoTokenAfterPause ==
  [][pausedCycle => loop'.bufLen <= loop.bufLen]_vars

C10_BufferWithinHardCap ==
  2 * loop.bufLen <= 3 * maxTokensPerCycle

\* C11: a cycle that took the cold-start gate emitted the settling line and
\* nothing else, and made no call of the language model and no call of the
\* embedding function.
C11_GateCallsNothing ==
  cyc.gate =>
    /\ cyc.emitted = <<SettlingLine>>
    /\ cyc.llmCalls = 0
    /\ cyc.embedCalls = 0

\* the evaluations i .. i+n-1 all saw distress (no stuck loop, level at or
\* above the threshold)
DistressRun(i, n) ==
  /\ i + n - 1 <= Len(cb.hist)
  /\ \A k \in i..(i + n - 1) : cb.hist[k].kind = "distress"

C13_NonDistressResets ==
  LET n == cb.maxConsecutiveDistress
  IN \A i \in 1..Len(cb.hist) :
       /\ cb.hist[i].kind # "distress" => cb.hist[i].after = 0
       /\ cb.hist[i].result.action = "interrupt_and_comfort" =>
            (i >= n /\ DistressRun(i - n + 1, n))

\* the rows the evaluations so far should have logged, in order
RECURSIVE ExpectedEvents(_)
ExpectedEvents(h) ==
  IF h = <<>> THEN <<>>
  ELSE LET r == h[Len(h)].result
           rest == ExpectedEvents(SubSeq(h, 1, Len(h) - 1))
       IN IF r.action = "continue" THEN rest
          ELSE Append(rest, [action |-> r.action, reason |-> r.reason,
                             severity |-> r.severity])

\* C14: the event table holds, in order, one row for every evaluation that
\* returned a non-continue action, with its action, reason and severity, and
\* nothing else.
C14_OneRowPerIntervention ==
  [i \in 1..Len(cb.events) |->
     [action |-> cb.events[i].action, reason |-> cb.events[i].reason,
      severity |-> cb.events[i].severity]] = ExpectedEvents(cb.hist)

C14_Witness ==
  /\ Len(cb.events) >= 3
  /\ \E i \in 1..Len(cb.hist) : cb.hist[i].result.action = "continue"
  /\ \E i \in 1..Len(cb.events) : cb.events[i].action = "interrupt_and_comfort"
  /\ \E i \in 1..Len(cb.events) : cb.events[i].reason = "loop_detected"

\* the positions in the output of the responses that carry this requestId
RowsOf(r) == {i \in 1..Len(ipc.out) : ipc.out[i].requestId = r}

Dispatched(r) == \E i \in 1..Len(ipc.order) : ipc.order[i] = r

\* C15: a chat request that has ended was answered with exactly one chat-done
\* carrying its requestId, sent after all of its chunks and followed by no
\* other response for it, also when the model call, the retrieval or the
\* encoding failed.
C15_EndsWithOneChatDone ==
  \A r \in RequestIds :
    ipc.req[r].pc = "done" =>
      LET dones == {i \in RowsOf(r) : ipc.out[i].type = "chat-done"}
      IN /\ Cardinality(dones) = 1
         /\ \A i \in RowsOf(r), d \in dones : i <= d

\* C16: of two chat requests of one conversation, the later one has its
\* retrieval (and so its model call) started only after the exchange of the
\* earlier one was appended to the history, or the earlier one had ended.
C16_SameSessionFifo ==
  \A i, j \in 1..Len(ipc.order) :
    LET a == ipc.req[ipc.order[i]]
        b == ipc.req[ipc.order[j]]
    IN (i < j /\ a.conv = b.conv) => (a.appended \/ a.pc = "done")

\* C17: every well-formed request whose bytes have all arrived on the
\* connection has been handed to its handler, whatever broken or over-long
\* lines arrived before or after it.
C17_WellFormedAnswered ==
  \A r \in RequestIds :
    (ipc.req[r].kind = "chat" /\ r \in ipc.delivered) => Dispatched(r)

\* C18: name detection fires the callback at most once, and once the partner
\* identifier is non-empty no later message changes it or fires the callback.
C18_NameSetOnce ==
  [][/\ Len(ipc'.nameCalls) <= 1
     /\ ipc.userId # "" =>
          (ipc'.userId = ipc.userId /\ ipc'.nameCalls = ipc.nameCalls)]_vars

C18_Witness ==
  /\ Len(ipc.order) = 2
  /\ ipc.userId # ""
  /\ extractUserName(ipc.req[ipc.order[1]].intro) = ipc.userId
  /\ extractUserName(ipc.req[ipc.order[2]].intro) \notin {"", ipc.userId}

NoDuplicates(s) == \A i, j \in 1..Len(s) : s[i] = s[j] => i = j

\* C19: merging the update that was just merged once more changes nothing,
\* for the manager's merge and for the merge of consolidation, and neither
\* the cached nor the stored model ever lists a value or a tendency twice.
C19_MergeIdempotent ==
  /\ sm.last.by = "manager" =>
       mergeUpdate(sm.last.result, sm.last.upd) = sm.last.result
  /\ sm.last.by = "consolidation" =>
       ApplySelfModelUpdates(sm.last.result, sm.last.upd) = sm.last.result
  /\ \A m \in {sm.cached, sm.stored} :
       NoDuplicates(m.values) /\ NoDuplicates(m.tendencies)

C19_Witness ==
  /\ sm.last.by = "manager"
  /\ sm.last.upd.newValue \in Range(sm.last.before.values)
  /\ sm.last.upd.newTendency \in Range(sm.last.before.tendencies)
  /\ Len(sm.stored.values) = 2

\* C20: a run of applyDecay leaves no node with a larger salience and no link
\* with a larger strength than it had before the run.
C20_DecayNeverIncreases ==
  dk.runs > 0 =>
    /\ \A i \in 1..Len(dk.g.nodes) :
         dk.g.nodes[i].salience <= dk.before.nodes[i].salience
    /\ \A id \in NodeIds : \A j \in 1..Len(dk.g.links[id]) :
         dk.g.links[id][j].strength <= dk.before.links[id][j].strength

\* C21: in every state of the graph every episode's salience lies in
\* [minimum_salience, 1] and every link's strength lies in (0, 1].
C21_SalienceAndStrengthInRange ==
  /\ \A i \in 1..Len(mg.g.nodes) :
       /\ mg.g.nodes[i].salience >= MinimumSalience
       /\ mg.g.nodes[i].salience <= Scale
  /\ \A id \in NodeIds : \A j \in 1..Len(mg.g.links[id]) :
       /\ mg.g.links[id][j].strength > 0
       /\ mg.g.links[id][j].strength <= Scale

\* the node a merging candidate merges into, as it was before the merge
MergeTarget == findNearestNodes(mg.last.before, mg.last.embedding, 1)[1]

LastActivation ==
  LET b == mg.last.before
      entry == findNearestNodes(b, mg.last.embedding,
                                Min2(EntryPoints, nodeCount(b)))
  IN spreadActivation(b, SeedMap(entry, mg.last.embedding, Len(entry)),
                      RetrieveMaxHops, RetrieveDecayPerHop)

LastThreshold == mg.last.threshold * (EnergyScale \div Scale)

\* C23: retrieve returns at most `limit` nodes, in non-increasing order of
\* activation, none below the threshold, and every node at or above the
\* threshold unless the limit is reached by nodes at least as active; on an
\* empty graph it returns nothing.
C23_RetrieveReturnsTheActivated ==
  mg.last.op = "retrieve" =>
    LET ret == mg.last.returned
        act == LastActivation
    IN IF nodeCount(mg.last.before) = 0 THEN ret = <<>>
       ELSE /\ Len(ret) <= mg.last.limit
            /\ \A i, j \in 1..Len(ret) :
                 i < j => act.val[ret[i]] >= act.val[ret[j]]
            /\ \A i \in 1..Len(ret) : act.val[ret[i]] >= LastThreshold
            /\ \A k \in Range(act.keys) :
                 (act.val[k] >= LastThreshold /\ k \notin Range(ret)) =>
                   /\ Len(ret) = mg.last.limit
                   /\ \A i \in 1..Len(ret) : act.val[ret[i]] >= act.val[k]

\* C24: retrieve raises the access count of each node it returns by exactly
\* 1 and leaves every other node, and every link, as it was.
C24_ReinforcesExactlyReturned ==
  mg.last.op = "retrieve" =>
    /\ mg.g.links = mg.last.before.links
    /\ nodeCount(mg.g) = nodeCount(mg.last.before)
    /\ \A i \in 1..Len(mg.last.before.nodes) :
         LET old == mg.last.before.nodes[i]
             new == mg.g.nodes[i]
         IN IF old.id \in Range(mg.last.returned)
            THEN /\ new.accessCount = old.accessCount + 1
                 /\ new.salience = old.salience
            ELSE new = old

C24_Witness ==
  /\ mg.last.op = "retrieve"
  /\ Len(mg.last.returned) = 1
  /\ nodeCount(mg.g) >= 2
  /\ mg.clock # 0
  /\ \E i \in 1..Len(mg.g.nodes) :
       /\ mg.g.nodes[i].id \notin Range(mg.last.returned)
       /\ mg.g.nodes[i].lastAccessed # mg.clock

SaHasLink(from, to) ==
  \E j \in 1..Len(sa.g.links[from]) : sa.g.links[from][j].targetId = to

\* the statement of C25 for seeds of any energy
C25_AdditiveForAnySeeds ==
  (sa.done = SeedSets /\ SaHasLink(1, 3) /\ SaHasLink(2, 3)) =>
    /\ sa.res["both"].val[3] >= sa.res["first"].val[3]
    /\ sa.res["both"].val[3] >= sa.res["second"].val[3]

\* C25: if the seeds 1 and 2, both of non-negative energy, link into the
\* target 3 with positive strength, the activation of 3 when both are given
\* is at least its activation when either is given alone.
C25_Additive ==
  (sa.e1 >= 0 /\ sa.e2 >= 0) => C25_AdditiveForAnySeeds

C25_Witness ==
  /\ sa.done = SeedSets /\ SaHasLink(1, 3) /\ SaHasLink(2, 3)
  /\ sa.e1 > 0 /\ sa.e2 > 0
  /\ sa.hops >= 2 /\ SaHasLink(3, 1)
  /\ sa.res["both"].val[3] > sa.res["first"].val[3]
  /\ sa.res["both"].val[3] > sa.res["second"].val[3]

SaStrengths ==
  UNION {{sa.g.links[id][j].strength : j \in 1..Len(sa.g.links[id])} :
           id \in NodeIds}

SaWeakest == CHOOSE s \in SaStrengths : \A t \in SaStrengths : s <= t

\* the nodes within h hops of node 1
RECURSIVE SaReach(_)
SaReach(h) ==
  IF h = 0 THEN {1}
  ELSE LET r == SaReach(h - 1)
       IN r \cup {n \in NodeIds : \E x \in r : SaHasLink(x, n)}

\* energy * s^h * D^h
RECURSIVE LocalityBound(_, _, _, _)
LocalityBound(energy, s, d, h) ==
  IF h = 0 THEN energy
  ELSE LocalityBound((((energy * s) \div Scale) * d) \div Scale, s, d, h - 1)

\* the statement of C26 for a seed of any energy
C26_LocalityForAnySeed ==
  "first" \in sa.done =>
    \A n \in SaReach(sa.hops) :
      /\ n \in Range(sa.res["first"].keys)
      /\ sa.res["first"].val[n] >=
           LocalityBound(sa.e1, SaWeakest, RetrieveDecayPerHop, sa.hops)

\* C26: with node 1 seeded at a non-negative energy, hop limit H and decay
\* D, and s the smallest link strength of the graph, every node within H
\* hops of node 1 is in the activation map with at least energy * s^H * D^H.
C26_Locality ==
  sa.e1 >= 0 => C26_LocalityForAnySeed

C26_Witness ==
  /\ "first" \in sa.done
  /\ sa.e1 > 0
  /\ sa.hops = 2
  /\ ~SaHasLink(1, 3)
  /\ 3 \in Range(sa.res["first"].keys)
  /\ sa.res["first"].val[3] =
       LocalityBound(sa.e1, SaWeakest, RetrieveDecayPerHop, sa.hops)

\* C27: while the server holds the monologue paused for a conversation (from
\* the pause of handleChat until resumeAfterConversation), no monologue
\* cycle starts and no token is appended to the buffer, whatever idle timer,
\* trigger or comfort timer fires.
C27_QuietWhileConversation ==
  [][(srv.monologuePausedForConversation
        /\ srv'.monologuePausedForConversation)
       => /\ counts'.cycles = counts.cycles
          /\ loop'.bufLen <= loop.bufLen]_vars

\* C28: a pass whose abstraction model call failed is aborted after step 2:
\* it creates or merges no episode, leaves the self-model as it was, and
\* flags none of the raw experiences it loaded, so that the next pass loads
\* them again.
C28_FailedCallAbortsPass ==
  [][\A p \in PassIds :
       (PassEnds(p) /\ pass'[p].llmFailed) =>
         /\ nodeCount(graph') = nodeCount(graph)
         /\ \A i \in 1..Len(graph.nodes) :
              graph'.nodes[i].accessCount = graph.nodes[i].accessCount
         /\ storeSelf' = storeSelf
         /\ \A i \in pass'[p].raw : ~rawProcessed'[i]]_vars

\* C29: a pass whose persist fails is rolled back: the raw experiences it
\* consumed do not stay flagged processed while an episode of the graph is
\* missing from the store, so that the next tick processes them again.
C29_PersistFailureRollsBack ==
  [][\A p \in PassIds :
       ( /\ PassEnds(p)
         /\ pass'[p].outcome = "error"
         /\ "persist" \in Range(pass'[p].log)
         /\ pass'[p].raw # {} ) =>
         \/ \A i \in pass'[p].raw : ~rawProcessed'[i]
         \/ \A i \in 1..Len(graph'.nodes) :
              DbHasEpisode(db', graph'.nodes[i].id)]_vars

\* C30: on sleep, the monologue cycle in progress is cancelled at its next
\* token and its buffer is persisted as a raw monologue experience before
\* the store is closed: once the store is closed, no cycle is left holding
\* a buffer and no buffer is left waiting to be inserted.
C30_BufferPersistedBeforeClose ==
  ~sl.dbOpen =>
    /\ \A t \in ThreadIds : threads[t].pc = "cycle" => loop.bufLen = 0
    /\ sl.encoding = 0

\* C31: each raw experience is handed to the abstraction model by at most
\* one pass: no two passes that are between their load and their return
\* hold the same raw experience.
C31_RawLoadedByOnePass ==
  \A p, q \in PassIds :
    (p # q /\ pass[p].pc # "idle" /\ pass[q].pc # "idle") =>
      pass[p].raw \cap pass[q].raw = {}

\* C32: a chat turn whose reply has ended is appended to the history of the
\* conversation it was sent under and is encoded with the id of that
\* conversation (the append and the start of the encoding are one step).
C32_TurnGoesToItsConversation ==
  [][\A r \in RequestIds :
       (ipc.req[r].pc = "stream" /\ ipc'.req[r].pc = "encode") =>
         /\ ipc'.currentConversation.id = ipc.req[r].conv
         /\ r \in Range(ipc'.currentConversation.history)]_vars

\* C33: from an empty store, as long as no conversation has ended and no
\* resume context was given (talked is the history of that), every cycle
\* that has started took the cold-start gate, so the language model was
\* not called.
C33_GateUntilFirstConversation ==
  (~cyc.talked /\ cyc.cycles > 0) => (cyc.gate /\ cyc.llmCalls = 0)

\* C34: a conversation turn assembles its prompt (the step to the reply
\* stream) from a self-model that holds every update consolidation passes
\* have stored so far: the focus, the values and the tendencies.
C34_PromptFromStoredSelfModel ==
  [][(conv.pc # "streaming" /\ conv'.pc = "streaming") =>
       /\ applied.focus # "" => memSelf'.currentFocus = applied.focus
       /\ applied.values \subseteq Range(memSelf'.values)
       /\ applied.tendencies \subseteq Range(memSelf'.tendencies)]_vars

\* the circuit breaker interrupts the cycle in progress in this step: the
\* token sets the pause flag and the cycle ends
BreakerInterrupts ==
  \E t \in ThreadIds :
    /\ threads[t].pc = "cycle" /\ threads'[t].pc # "cycle"
    /\ ~loop.isPaused /\ loop'.isPaused

\* C35: when the circuit breaker interrupts an active cycle the monologue
\* state becomes paused, and it is still paused when the interrupted cycle
\* has returned to the loop.
C35_InterruptLeavesPaused ==
  [][BreakerInterrupts => mgr'.state = "paused"]_vars

\* a summary given when k cycles had started was used by cycle k + 1
UsedByCycleStartedAfter ==
  \A u \in cyc.used : u.cycle = u.at + 1

\* C36: every summary passed to resumeAfterConversation is the resume
\* context of exactly one cycle, the next cycle that starts after the call:
\* no summary is replaced before a prompt has used it, and a summary given
\* when k cycles had started is used by cycle k + 1.
C36_SummaryUsedByNextCycle ==
  ~cyc.overwritten /\ UsedByCycleStartedAfter

\* C37: errors of the background tasks neither stop them nor end the
\* process: the runLoop never ends while the monologue runs, the process
\* has not exited and the consolidation timer stays armed; a loop that
\* waits after a cycle (30 s after a network error, for a trigger after any
\* other end) starts another cycle, and a scheduled pass that threw is
\* followed by another scheduled pass.
C37_BackgroundTasksSurviveErrors ==
  /\ [](mgr.running =>
          \A t \in ThreadIds : threads[t].pc \notin {"done", "abandoned"})
  /\ [](~life.exited /\ life.timer)
  /\ (\E t \in ThreadIds : threads[t].pc \in {"netSleep", "waitTrigger"})
       ~> (\E t \in ThreadIds : threads[t].pc = "cycle")
  /\ (pass["scheduled"].pc = "idle" /\ pass["scheduled"].outcome = "error")
       ~> (pass["scheduled"].outcome # "error")

C37_Witness ==
  /\ \E t \in ThreadIds : threads[t].pc = "netSleep"
  /\ pass["scheduled"].pc = "idle" /\ pass["scheduled"].outcome = "error"
  /\ counts.cycles = 1
  /\ passesStarted = 1

\* C38: a newly inserted episode is linked, thematically and with strength
\* 0.5, to the min(3, n) nearest of the n nodes that existed before the
\* insert, and never to itself.
InsertedLinks == getLinks(mg.g, mg.g.nodes[Len(mg.g.nodes)].id)

C38_NewEpisodeLinkedToNearest ==
  mg.last.op = "insert" =>
    LET before == mg.last.before
        id == mg.g.nodes[Len(mg.g.nodes)].id
        targets == {InsertedLinks[j].targetId : j \in 1..Len(InsertedLinks)}
        others == {before.nodes[i].id : i \in 1..Len(before.nodes)}
        sim(n) == cosineSimilarity(mg.last.embedding,
                                   getNode(before, n).embedding)
    IN /\ Len(InsertedLinks) = Min2(NearestForLinks, nodeCount(before))
       /\ Cardinality(targets) = Len(InsertedLinks)
       /\ id \notin targets
       /\ targets \subseteq others
       /\ \A j \in 1..Len(InsertedLinks) :
            /\ InsertedLinks[j].strength = LinkStrengthInit
            /\ InsertedLinks[j].type = "thematic"
       /\ \A t \in targets : \A o \in others \ targets : sim(t) >= sim(o)

\* C39: find-nearest(query, k) returns the k nodes of highest cosine
\* similarity to the query, ties broken by the higher salience and then by
\* the smaller id, whatever the order in which the nodes were inserted.
RanksBefore(g, q, a, b) ==
  LET simA == cosineSimilarity(q, getNode(g, a).embedding)
      simB == cosineSimilarity(q, getNode(g, b).embedding)
      salA == getNode(g, a).salience
      salB == getNode(g, b).salience
  IN \/ simA > simB
     \/ simA = simB /\ salA > salB
     \/ simA = simB /\ salA = salB /\ a < b

C39_NearestRankedBySimSalienceId ==
  mg.last.op = "nearest" =>
    LET g == mg.last.before
        q == mg.last.embedding
        r == mg.last.returned
        all == {g.nodes[i].id : i \in 1..Len(g.nodes)}
    IN /\ Len(r) = Min2(mg.last.limit, nodeCount(g))
       /\ Range(r) \subseteq all
       /\ \A i, j \in 1..Len(r) : i < j => RanksBefore(g, q, r[i], r[j])
       /\ \A i \in 1..Len(r) : \A o \in all \ Range(r) :
            RanksBefore(g, q, r[i], o)

\* C40: each row of the circuit-breaker event table stores as snapshot the
\* last 500 characters of the buffer that was evaluated, and the whole
\* buffer when it is shorter.
LastChars(text, n) == [lo |-> Max2(text.lo, text.hi - n), hi |-> text.hi]

C40_SnapshotIsBufferTail ==
  (cb.hist # <<>> /\ cb.hist[Len(cb.hist)].result.action # "continue") =>
    /\ cb.events # <<>>
    /\ cb.events[Len(cb.events)].bufferSnapshot
         = LastChars(cb.hist[Len(cb.hist)].text, SnapshotChars)

====
